---- MODULE Spec2Model ----
(***************************************************************************)
(* The MyMech Autocare backend: appointment slot availability, the chat   *)
(* assistant, and the handlers of users, projects and service logs.        *)
(*                                                                         *)
(* Time is counted in minutes since the epoch day 0, 00:00 UTC.  Day       *)
(* numbers are chosen so that day % 7 is JavaScript's getDay() value       *)
(* (0 = Sunday .. 6 = Saturday).  A Date object is its UTC minute count,   *)
(* or NaN for an Invalid Date.  The host's timezone offset tz (hours east  *)
(* of UTC) is fixed for a run of the server.                               *)
(*                                                                         *)
(* appointments is the appointments table, db the other tables a handler   *)
(* uses; req and resp are the last request and its response, locals the    *)
(* locals of the handlers (of each request in flight where requests run    *)
(* concurrently).                                                          *)
(***************************************************************************)
EXTENDS Integers, Sequences, FiniteSets, TLC

VARIABLES tz, appointments, req, resp, locals, db

vars == <<tz, appointments, req, resp, locals, db>>

----------------------------------------------------------------------------
(* Bounds of the model *)

\* the appointment table holds at most MaxAppts rows
MaxAppts == 2

\* host timezone offsets, hours east of UTC
TZOffsets == {0 - 5, 5}

\* calendar dates a request may name: Mon 8, Tue 9, Sat 13, Sun 14
QueryDates == {8, 9, 13, 14}

\* local date and time strings a booking request may carry
BookingTimes ==
    { [date |-> 8,  hour |-> 10, minute |-> 0],    \* Monday 10:00
      [date |-> 8,  hour |-> 10, minute |-> 30],   \* Monday 10:30
      [date |-> 8,  hour |-> 7,  minute |-> 0],    \* Monday 07:00
      [date |-> 13, hour |-> 18, minute |-> 0],    \* Saturday 18:00
      [date |-> 14, hour |-> 10, minute |-> 0] }   \* Sunday 10:00

\* the local date and time a reschedule may carry
RescheduleTimes == { [date |-> 8, hour |-> 10, minute |-> 30] }

----------------------------------------------------------------------------
(* Values *)

\* the number NaN: the time value of an Invalid Date and what its getters
\* return; every valid time value, day and hour of the model is >= 0
NaN == -1

\* the date query parameter / date argument: absent, a YYYY-MM-DD string
\* naming calendar day `day`, or a string that is no date
NoDate == [kind |-> "missing", day |-> 0]
BadDate == [kind |-> "garbage", day |-> 0]
Ymd(d) == [kind |-> "ymd", day |-> d]

AppointmentStatus == {"scheduled", "confirmed", "in_progress", "completed", "cancelled"}

MinutesPerHour == 60
HoursPerDay == 24
MinutesPerDay == HoursPerDay * MinutesPerHour

----------------------------------------------------------------------------
(* JavaScript Date *)

\* new Date("YYYY-MM-DD"): a date-only string is UTC midnight of that date;
\* a string that is no date gives an Invalid Date
ParseDateOnly(date) ==
    IF date.kind = "ymd" THEN date.day * MinutesPerDay ELSE NaN

\* new Date("YYYY-MM-DDTHH:MM"): a date-time string without offset is local time
ParseLocalDateTime(date, hour, minute, off) ==
    date * MinutesPerDay + (hour - off) * MinutesPerHour + minute

\* the instant on the host's local clock
LocalMinutes(t, off) == t + off * MinutesPerHour

\* a day of week counted from Monday: 0 = Monday .. 6 = Sunday
getDayMondayFirst(t, off) ==
    IF t = NaN THEN NaN ELSE (LocalMinutes(t, off) \div MinutesPerDay + 6) % 7

\* Date.prototype.getDay()
getDay(t, off) ==
    IF t = NaN THEN NaN ELSE (LocalMinutes(t, off) \div MinutesPerDay) % 7

\* Date.prototype.getHours()
getHours(t, off) ==
    IF t = NaN THEN NaN ELSE (LocalMinutes(t, off) \div MinutesPerHour) % HoursPerDay

\* Date.prototype.getMinutes()
getMinutes(t, off) ==
    IF t = NaN THEN NaN ELSE LocalMinutes(t, off) % MinutesPerHour

\* d = new Date(t); d.setHours(0, 0, 0, 0)
StartOfDay(t, off) ==
    IF t = NaN THEN NaN
    ELSE (LocalMinutes(t, off) \div MinutesPerDay) * MinutesPerDay - off * MinutesPerHour

\* the start of the last hour of the local day, as setHours(23, 0, 0, 0) gives
EndOfDayLastHour(t, off) ==
    IF t = NaN THEN NaN
    ELSE StartOfDay(t, off) + MinutesPerDay - MinutesPerHour

\* d = new Date(t); d.setHours(23, 59, 59, 999): the last minute of the local day
EndOfDay(t, off) ==
    IF t = NaN THEN NaN
    ELSE StartOfDay(t, off) + MinutesPerDay - 1

----------------------------------------------------------------------------
(* Helpers of the appointment controller *)

\* Array.prototype.includes
Includes(seq, x) == \E i \in DOMAIN seq : seq[i] = x

\* the text of a time of day: the hour padded with zeros to `width` digits,
\* ":", the minute in two digits, then `suffix`
TimeText(hh, mm, width, suffix) == [hh |-> hh, mm |-> mm, width |-> width, suffix |-> suffix]

\* a label that subtracts 12 from noon on as well: "0:00 PM" at noon
formatHourDisplayFromNoon(hour) ==
    LET period == IF hour >= 12 THEN "PM" ELSE "AM"
        displayHour == IF hour >= 12 THEN hour - 12 ELSE IF hour = 0 THEN 12 ELSE hour
    IN  TimeText(displayHour, 0, 1, IF period = "PM" THEN " PM" ELSE " AM")

\* formatHourDisplay: `${displayHour}:00 ${period}`
formatHourDisplay(hour) ==
    LET period == IF hour >= 12 THEN "PM" ELSE "AM"
        displayHour == IF hour > 12 THEN hour - 12 ELSE IF hour = 0 THEN 12 ELSE hour
    IN  TimeText(displayHour, 0, 1, IF period = "PM" THEN " PM" ELSE " AM")

\* getDayName
getDayName(dayOfWeek) ==
    <<"Sunday", "Monday", "Tuesday", "Wednesday", "Thursday", "Friday", "Saturday">>[dayOfWeek + 1]

\* `${hour.toString().padStart(2, '0')}:00`
HourTime(hour) == TimeText(hour, 0, 2, "")

\* the candidate slots pushed from the last hour down to the first
AllSlotsDescending(startHour, endHour) ==
    [i \in 1..(endHour - startHour) |->
        LET hour == endHour - i
        IN  [hour |-> hour, time |-> HourTime(hour), display |-> formatHourDisplay(hour)]]

\* the candidate slots: for (hour = startHour; hour < endHour; hour++) push
AllSlots(startHour, endHour) ==
    [i \in 1..(endHour - startHour) |->
        LET hour == startHour + i - 1
        IN  [hour |-> hour, time |-> HourTime(hour), display |-> formatHourDisplay(hour)]]

\* every status but cancelled (status: {not: "cancelled"})
NotCancelledStatuses == {"scheduled", "confirmed", "in_progress", "completed"}

\* the statuses the availability query of the controller selects
OccupyingStatuses == {"scheduled", "confirmed", "in_progress"}

\* the rows of the table as an array, in the order the store returns them
\* (the queries give no orderBy)
Rows(table) == table

\* prisma.appointment.findMany({where: {scheduledDate: {gte, lte}, status: {in}}})
FindOccupying(appts, startOfDay, endOfDay) ==
    SelectSeq(Rows(appts), LAMBDA a :
        /\ a.scheduledDate >= startOfDay
        /\ a.scheduledDate <= endOfDay
        /\ a.status \in OccupyingStatuses)

\* existingAppointments.map(apt => new Date(apt.scheduledDate).getHours())
BookedHours(existing, off) ==
    [i \in 1..Len(existing) |-> getHours(existing[i].scheduledDate, off)]

\* allSlots.filter(slot => !bookedHours.includes(slot.hour))
FilterAvailable(allSlots, bookedHours) ==
    SelectSeq(allSlots, LAMBDA slot : ~Includes(bookedHours, slot.hour))

----------------------------------------------------------------------------
(* Business hours *)

SaturdayStartHour == 8
SaturdayEndHour == 19
WeekdayStartHour == 9
WeekdayEndHour == 18

\* startHour of the day: Saturday when dayOfWeek === 6, else the weekday hours
\* (also for the NaN day of an Invalid Date, which equals neither 0 nor 6)
StartHourOf(dayOfWeek) == IF dayOfWeek = 6 THEN SaturdayStartHour ELSE WeekdayStartHour
EndHourOf(dayOfWeek) == IF dayOfWeek = 6 THEN SaturdayEndHour ELSE WeekdayEndHour

----------------------------------------------------------------------------
(* GET /appointments/available-slots: the controller's getAvailableTimeSlots *)

\* the handler's local variables when it returns
NoLocals == [reached |-> FALSE]
Locals(dayOfWeek, startHour, endHour, reads) ==
    [dayOfWeek |-> dayOfWeek, startHour |-> startHour, endHour |-> endHour,
     reached |-> TRUE, storeCalls |-> reads]

DateRequired ==
    [status |-> 400, success |-> FALSE, error |-> "Date is required"]

ClosedOnSundays ==
    [status |-> 200, success |-> TRUE,
     data |-> [availableSlots |-> <<>>,
               message |-> "Service station is closed on Sundays"]]

FailedToFetch ==
    [status |-> 500, success |-> FALSE, error |-> "Failed to fetch available time slots"]

\* a check that lets every request pass
DateNeverMissing(date) == FALSE

\* if (!date): the query carries no date parameter
DateMissing(date) == date.kind = "missing"

\* the whole handler on the table as it is read: response and locals
HttpGetAvailableTimeSlots(date, appts, off) ==
    IF DateMissing(date)
    THEN [resp |-> DateRequired, locals |-> NoLocals]
    ELSE
      LET selectedDate == ParseDateOnly(date)
          dayOfWeek == getDay(selectedDate, off)
      IN
      IF dayOfWeek = 0
      THEN [resp |-> ClosedOnSundays, locals |-> Locals(dayOfWeek, NaN, NaN, 0)]
      ELSE
        LET startHour == StartHourOf(dayOfWeek)
            endHour == EndHourOf(dayOfWeek)
            allSlots == AllSlots(startHour, endHour)
            startOfDay == StartOfDay(selectedDate, off)
            endOfDay == EndOfDay(selectedDate, off)
        IN
        IF startOfDay = NaN
        THEN \* the client rejects an Invalid Date argument: findMany throws
             [resp |-> FailedToFetch, locals |-> Locals(dayOfWeek, startHour, endHour, 1)]
        ELSE
          LET existingAppointments == FindOccupying(appts, startOfDay, endOfDay)
              bookedHours == BookedHours(existingAppointments, off)
              availableSlots == FilterAvailable(allSlots, bookedHours)
          IN
          [resp |-> [status |-> 200, success |-> TRUE,
                     data |-> [date |-> date,
                               dayOfWeek |-> getDayName(dayOfWeek),
                               availableSlots |-> availableSlots,
                               businessHours |-> <<formatHourDisplay(startHour),
                                                   formatHourDisplay(endHour)>>,
                               totalSlots |-> Len(allSlots),
                               bookedSlots |-> Len(bookedHours)]],
           locals |-> Locals(dayOfWeek, startHour, endHour, 1)]

----------------------------------------------------------------------------
(* The chat service's getAvailableTimeSlots(date), first implementation *)

Returned(value) == [returned |-> value]
Thrown == [thrown |-> "Error"]

\* .map(slot => slot.display)
Displays(slots) == [i \in 1..Len(slots) |-> slots[i].display]

ChatGetAvailableTimeSlots(date, appts, off) ==
    LET selectedDate == ParseDateOnly(date)
        dayOfWeek == getDay(selectedDate, off)
    IN
    IF dayOfWeek = 0
    THEN [resp |-> Returned(<<>>), locals |-> Locals(dayOfWeek, NaN, NaN, 0)]
    ELSE
      LET startHour == StartHourOf(dayOfWeek)
          endHour == EndHourOf(dayOfWeek)
          allSlots == AllSlots(startHour, endHour)
          startOfDay == StartOfDay(selectedDate, off)
          endOfDay == EndOfDay(selectedDate, off)
      IN
      IF startOfDay = NaN
      THEN \* findMany throws on the Invalid Date; the catch block rethrows
           [resp |-> Thrown, locals |-> Locals(dayOfWeek, startHour, endHour, 1)]
      ELSE
        LET existingAppointments == FindOccupying(appts, startOfDay, endOfDay)
            bookedHours == BookedHours(existingAppointments, off)
        IN
        [resp |-> Returned(Displays(FilterAvailable(allSlots, bookedHours))),
         locals |-> Locals(dayOfWeek, startHour, endHour, 1)]

----------------------------------------------------------------------------
(* The chat service's getAvailableTimeSlots(date), second implementation *)

\* "HH:MM", both padded to two digits
HHMM(hh, mm) == TimeText(hh, mm, 2, "")

\* the fixed list "09:00" .. "17:00"
FixedFirstHour == 9
FixedLastHour == 17
FixedBusinessHours ==
    [i \in 1..(FixedLastHour - FixedFirstHour + 1) |-> HHMM(FixedFirstHour + i - 1, 0)]

\* findMany({where: {scheduledDate: {gte, lte}, status: {not: "cancelled"}}})
FindNotCancelled(appts, startOfDay, endOfDay) ==
    SelectSeq(Rows(appts), LAMBDA a :
        /\ a.scheduledDate >= startOfDay
        /\ a.scheduledDate <= endOfDay
        /\ a.status # "cancelled")

\* existingAppointments.map(apt => "HH:MM" of its local time)
BookedTimes(existing, off) ==
    [i \in 1..Len(existing) |->
        HHMM(getHours(existing[i].scheduledDate, off),
             getMinutes(existing[i].scheduledDate, off))]

\* this implementation derives no day of week and no hours; it calls the store once
FixedLocals == [reached |-> TRUE, storeCalls |-> 1]

FixedGetAvailableTimeSlots(date, appts, off) ==
    LET parsed == ParseDateOnly(date)
        startOfDay == StartOfDay(parsed, off)
        endOfDay == EndOfDay(parsed, off)
    IN
    IF startOfDay = NaN
    THEN [resp |-> Thrown, locals |-> FixedLocals]
    ELSE
      LET existingAppointments == FindNotCancelled(appts, startOfDay, endOfDay)
          bookedSlots == BookedTimes(existingAppointments, off)
      IN
      [resp |-> Returned(SelectSeq(FixedBusinessHours,
                                   LAMBDA slot : ~Includes(bookedSlots, slot))),
       locals |-> FixedLocals]

----------------------------------------------------------------------------------------------------------------------------------------
(* The appointment table and the handlers that write it.                   *)
(* The handlers read two columns of a row, scheduledDate and status; the   *)
(* id only selects a row.  The table is the collection of its rows, held   *)
(* as a sequence in one fixed order (by time, then status), so that two    *)
(* tables with the same rows are the same state.                           *)

Appointment(scheduledDate, status) == [scheduledDate |-> scheduledDate, status |-> status]

\* the order of the rows in the sequence that holds the table
StatusOrder == <<"scheduled", "confirmed", "in_progress", "completed", "cancelled">>
StatusRank(status) == CHOOSE i \in DOMAIN StatusOrder : StatusOrder[i] = status
RowKey(row) == row.scheduledDate * (Len(StatusOrder) + 1) + StatusRank(row.status)

\* prisma.appointment.create({data})
InsertRow(table, row) ==
    LET k == Cardinality({i \in DOMAIN table : RowKey(table[i]) <= RowKey(row)})
    IN  SubSeq(table, 1, k) \o <<row>> \o SubSeq(table, k + 1, Len(table))

\* the table without its row i
RemoveRow(table, i) == SubSeq(table, 1, i - 1) \o SubSeq(table, i + 1, Len(table))

\* prisma.appointment.update({where: {id}, data}) on row i
UpdateRow(table, i, new) == InsertRow(RemoveRow(table, i), new)

\* the :appointmentId of no row of the customer
NoRow == 0

\* an absent body field
Undefined == "undefined"
NoTime == [date |-> 0, hour |-> 0, minute |-> 0]

\* the tables other than appointments, where a handler does not use them
NoTables == <<>>

NoRequest == [op |-> "none"]
NoResponse == [status |-> 0]

Init ==
    /\ tz \in TZOffsets
    /\ db = NoTables
    /\ appointments = <<>>
    /\ req = NoRequest
    /\ resp = NoResponse
    /\ locals = NoLocals

\* POST /appointments: createAppointment.  `problem` is what the request lacks:
\* a required field, a vehicle of the customer, or nothing
CreateAppointment(problem, t) ==
    /\ Len(appointments) < MaxAppts
    /\ req' = [op |-> "createAppointment"]
    /\ locals' = NoLocals
    /\ UNCHANGED <<tz, db>>
    /\ IF problem = "field"
       THEN /\ resp' = [status |-> 400, success |-> FALSE,
                        error |-> "Vehicle, service type, date, and time are required"]
            /\ appointments' = appointments
       ELSE IF problem = "vehicle"
       THEN /\ resp' = [status |-> 404, success |-> FALSE, error |-> "Vehicle not found"]
            /\ appointments' = appointments
       ELSE LET scheduledDate == ParseLocalDateTime(t.date, t.hour, t.minute, tz)
            IN  /\ appointments' =
                      InsertRow(appointments, Appointment(scheduledDate, "scheduled"))
                /\ resp' = [status |-> 201, success |-> TRUE,
                            message |-> "Appointment created successfully"]

AppointmentNotFound == [status |-> 404, success |-> FALSE, error |-> "Appointment not found"]

\* PUT /appointments/:appointmentId: updateAppointment on the row the id
\* selects.  An absent status or scheduledDate keeps the stored value
UpdateAppointment(id, status, t) ==
    /\ req' = [op |-> "updateAppointment"]
    /\ locals' = NoLocals
    /\ UNCHANGED <<tz, db>>
    /\ IF id = NoRow
       THEN /\ resp' = AppointmentNotFound
            /\ appointments' = appointments
       ELSE LET appointment == appointments[id]
                updated == Appointment(
                    IF t # NoTime THEN ParseLocalDateTime(t.date, t.hour, t.minute, tz)
                                  ELSE appointment.scheduledDate,
                    IF status # Undefined THEN status ELSE appointment.status)
            IN  /\ appointments' = UpdateRow(appointments, id, updated)
                /\ resp' = [status |-> 200, success |-> TRUE,
                            message |-> "Appointment updated successfully"]

\* DELETE /appointments/:appointmentId/cancel: cancelAppointment
CancelAppointment(id) ==
    /\ req' = [op |-> "cancelAppointment"]
    /\ locals' = NoLocals
    /\ UNCHANGED <<tz, db>>
    /\ IF id = NoRow
       THEN /\ resp' = AppointmentNotFound
            /\ appointments' = appointments
       ELSE /\ appointments' =
                  UpdateRow(appointments, id,
                            Appointment(appointments[id].scheduledDate, "cancelled"))
            /\ resp' = [status |-> 200, success |-> TRUE,
                        message |-> "Appointment cancelled successfully"]

----------------
(* Availability requests *)

\* GET /appointments/available-slots?date=...
GetAvailableTimeSlots(date) ==
    \E out \in {HttpGetAvailableTimeSlots(date, appointments, tz)} :
        /\ req' = [date |-> date, op |-> "availableSlots"]
        /\ resp' = out.resp
        /\ locals' = out.locals
        /\ UNCHANGED <<tz, appointments, db>>

\* the chat service asks for the slots of a date, first implementation
ChatSlots(date) ==
    \E out \in {ChatGetAvailableTimeSlots(date, appointments, tz)} :
        /\ req' = [date |-> date, op |-> "chatSlots"]
        /\ resp' = out.resp
        /\ locals' = out.locals
        /\ UNCHANGED <<tz, appointments, db>>

\* the chat service asks for the slots of a date, second implementation
FixedChatSlots(date) ==
    \E out \in {FixedGetAvailableTimeSlots(date, appointments, tz)} :
        /\ req' = [date |-> date, op |-> "fixedChatSlots"]
        /\ resp' = out.resp
        /\ locals' = out.locals
        /\ UNCHANGED <<tz, appointments, db>>

\* the date arguments of the model
DateStrings == {Ymd(d) : d \in QueryDates} \cup {BadDate}
DateParams == DateStrings \cup {NoDate}

\* the bodies of the update requests of the model: a status, or a new time
UpdateInputs ==
    {<<status, NoTime>> : status \in AppointmentStatus \cup {Undefined}}
        \cup {<<Undefined, t>> : t \in RescheduleTimes}

\* the rows a request's :appointmentId may select, or none
Selectable == DOMAIN appointments \cup {NoRow}

Next ==
    \/ \E t \in BookingTimes : CreateAppointment("none", t)
    \/ \E problem \in {"field", "vehicle"} : CreateAppointment(problem, NoTime)
    \/ \E id \in Selectable, in \in UpdateInputs : UpdateAppointment(id, in[1], in[2])
    \/ \E id \in Selectable : CancelAppointment(id)
    \/ \E date \in DateParams : GetAvailableTimeSlots(date)
    \/ \E date \in DateStrings : ChatSlots(date)
    \/ \E date \in DateStrings : FixedChatSlots(date)

Spec == Init /\ [][Next]_vars

----------------------------------------------------------------------------
(* The availability endpoint around midnight.  Bookings lie at the first   *)
(* and last minute of a day and on the days next to it; each request       *)
(* arrives at some time `now` of the server's clock.                       *)

\* local date and time strings of the bookings: Sunday 7 23:59, Monday 8
\* 00:00, 09:00 and 23:59, Tuesday 9 00:00 and 09:00
DayBookingTimes ==
    { [date |-> 7, hour |-> 23, minute |-> 59],
      [date |-> 8, hour |-> 0,  minute |-> 0],
      [date |-> 8, hour |-> 9,  minute |-> 0],
      [date |-> 8, hour |-> 23, minute |-> 59],
      [date |-> 9, hour |-> 0,  minute |-> 0],
      [date |-> 9, hour |-> 9,  minute |-> 0] }

\* the dates asked for: Monday 8, Tuesday 9
DayQueryDates == {Ymd(8), Ymd(9)}

\* the times at which a request arrives: Monday 8 12:00 UTC, Wednesday 10 12:00 UTC
ArrivalTimes == {8 * MinutesPerDay + 12 * MinutesPerHour, 10 * MinutesPerDay + 12 * MinutesPerHour}

\* a handler that keeps its first answer and gives it again to every later
\* request
GetAvailableTimeSlotsCached(date, now) ==
    \E out \in {HttpGetAvailableTimeSlots(date, appointments, tz)} :
        /\ req' = [date |-> date, op |-> "availableSlots", now |-> now]
        /\ resp' = IF req.op = "availableSlots" THEN resp ELSE out.resp
        /\ locals' = out.locals
        /\ UNCHANGED <<tz, appointments, db>>

\* GET /appointments/available-slots?date=... arriving at time `now`; the
\* handler constructs no Date but from the date parameter and from the rows
\* it reads, so `now` enters nothing it computes
GetAvailableTimeSlotsAt(date, now) ==
    \E out \in {HttpGetAvailableTimeSlots(date, appointments, tz)} :
        /\ req' = [date |-> date, op |-> "availableSlots", now |-> now]
        /\ resp' = out.resp
        /\ locals' = out.locals
        /\ UNCHANGED <<tz, appointments, db>>

NextDay ==
    \/ \E t \in DayBookingTimes : CreateAppointment("none", t)
    \/ \E id \in DOMAIN appointments : CancelAppointment(id)
    \/ \E date \in DayQueryDates, now \in ArrivalTimes : GetAvailableTimeSlotsAt(date, now)

SpecDay == Init /\ [][NextDay]_vars

----------------------------------------------------------------------------
(* The chat assistant: POST /chatbot/message.  The language model is an    *)
(* oracle: each chain.invoke(...) is one call, and the request carries the *)
(* answers the oracle will give to the extraction call and to the reply    *)
(* call.  The repository holds two controllers (one choosing the error     *)
(* text from the error, one with a fixed text) and two chat services.      *)

\* null of JavaScript and JSON
Null == [null |-> TRUE]

\* an array, where a value may be an array or null
Array(items) == [items |-> items]

\* the truth value of a date string or null in a condition
Truthy(v) == v # Null

\* an Error whose message contains the given phrases, and one without message
ErrorWith(phrases) == [hasMessage |-> TRUE, contains |-> phrases]
ErrorWithoutMessage == [hasMessage |-> FALSE, contains |-> {}]

\* error.message && error.message.includes(phrase)
MessageIncludes(error, phrase) == error.hasMessage /\ phrase \in error.contains

\* the request body's message: absent, "", only whitespace, or a text
NoMessage == [kind |-> "undefined"]
EmptyMessage == [kind |-> "string", text |-> ""]
BlankMessage == [kind |-> "string", text |-> "   "]
TextMessage == [kind |-> "string", text |-> "Can I come on Monday?"]

\* String.prototype.trim
Trim(text) == IF text = "   " THEN "" ELSE text

\* what the oracle gives to a call: a failure, or a response with content
Failure(error) == [kind |-> "fail", error |-> error]
Content(content) == [kind |-> "content", content |-> content]

\* contents: text with no {...} in it, text whose {...} is no JSON, the JSON
\* object asked for, and a reply in natural language
PlainText == [kind |-> "plain"]
BrokenJson == [kind |-> "broken"]
Json(intent, date) ==
    [kind |-> "json",
     value |-> [date |-> date, intent |-> intent,
                userFriendlyDate |-> IF date = Null THEN Null ELSE [friendly |-> date]]]
ReplyText == [kind |-> "reply"]

\* the messages, controllers, services and oracle answers of the model
Messages == {NoMessage, EmptyMessage, BlankMessage, TextMessage}
Controllers == {"classifying", "plain"}
Services == {"hours", "fixed"}
ErrorTexts ==
    { ErrorWith({}), ErrorWith({"API key expired"}), ErrorWith({"quota"}),
      ErrorWith({"overloaded"}), ErrorWith({"API key expired", "quota"}),
      ErrorWith({"quota", "overloaded"}), ErrorWithoutMessage }
OracleDates == {Null, Ymd(8), BadDate}
OracleIntents == {"appointment_query", "greeting"}
ExtractionAnswers ==
    {Failure(e) : e \in ErrorTexts}
        \cup {Content(PlainText), Content(BrokenJson)}
        \cup {Content(Json(intent, date)) : intent \in OracleIntents, date \in OracleDates}
CompositionAnswers ==
    {Failure(ErrorWith({})), Failure(ErrorWith({"overloaded"})), Content(ReplyText)}

\* local date and time strings of the bookings: Monday 8 10:00
ChatBookingTimes == { [date |-> 8, hour |-> 10, minute |-> 0] }

\* an invoke that calls the model a second time when the first call fails
InvokeWithRetry(calls, prompt, answer) ==
    IF answer.kind = "fail" THEN calls \o <<prompt, prompt>> ELSE Append(calls, prompt)

\* await chain.invoke({...}): one call of the oracle with the given prompt
Invoke(calls, prompt, answer) == Append(calls, prompt)

\* a fallback that takes an unreadable answer for a question about appointments
FallbackAsQuery == [date |-> Null, intent |-> "appointment_query", userFriendlyDate |-> Null]

\* { intent: "other", date: null, userFriendlyDate: null }
Fallback == [date |-> Null, intent |-> "other", userFriendlyDate |-> Null]

\* content.match(/\{[\s\S]*\}/), JSON.parse(jsonMatch[0]), and the catch block
ParseContent(content) ==
    IF content.kind = "plain" THEN Fallback
    ELSE IF content.kind = "broken" THEN Fallback
    ELSE content.value

\* extractDateAndIntent: the invoke is outside the try block
ExtractDateAndIntent(answer, calls) ==
    LET called == Invoke(calls, "extraction", answer)
    IN  IF answer.kind = "fail"
        THEN [thrown |-> answer.error, calls |-> called]
        ELSE [returned |-> ParseContent(answer.content), calls |-> called]

\* generateTimeSlotResponse: the first service tells a Sunday from open days
\* before it invokes the oracle; each path invokes it once
TimeSlotPrompt(service, date, off) ==
    IF service = "hours" /\ getDay(ParseDateOnly(date), off) = 0
    THEN "closedOnSunday" ELSE "timeSlots"

\* the slot computation of the service in use
ServiceGetAvailableTimeSlots(service, date, appts, off) ==
    IF service = "hours" THEN ChatGetAvailableTimeSlots(date, appts, off)
    ELSE FixedGetAvailableTimeSlots(date, appts, off)

\* the error of the store client on an Invalid Date argument
StoreError == ErrorWith({})

\* a condition that takes every message with a date for a question about
\* appointments
HasDate(extracted) == Truthy(extracted.date)

\* intent === 'appointment_query' && date
IsAppointmentQuery(extracted) ==
    extracted.intent = "appointment_query" /\ Truthy(extracted.date)

\* the outcome of processChatMessage with the calls it has made
Outcome(result, calls, slotCalls, storeCalls) ==
    [storeCalls |-> storeCalls, calls |-> calls, result |-> result, slotCalls |-> slotCalls]

\* processChatMessage: its catch block rethrows
ProcessChatMessage(service, answers, appts, off) ==
    LET extraction == ExtractDateAndIntent(answers.extract, <<>>)
    IN
    IF "thrown" \in DOMAIN extraction
    THEN Outcome([thrown |-> extraction.thrown], extraction.calls, 0, 0)
    ELSE
      LET extracted == extraction.returned
      IN
      IF IsAppointmentQuery(extracted)
      THEN
        LET slots == ServiceGetAvailableTimeSlots(service, extracted.date, appts, off)
        IN
        IF "thrown" \in DOMAIN slots.resp
        THEN Outcome([thrown |-> StoreError], extraction.calls, 1, slots.locals.storeCalls)
        ELSE
          LET calls == Invoke(extraction.calls,
                              TimeSlotPrompt(service, extracted.date, off), answers.compose)
          IN
          IF answers.compose.kind = "fail"
          THEN Outcome([thrown |-> answers.compose.error], calls, 1, slots.locals.storeCalls)
          ELSE Outcome([returned |-> [date |-> extracted.date,
                                      availableSlots |-> Array(slots.resp.returned),
                                      intent |-> extracted.intent,
                                      reply |-> answers.compose.content]],
                       calls, 1, slots.locals.storeCalls)
      ELSE
        LET calls == Invoke(extraction.calls, "general", answers.compose)
        IN
        IF answers.compose.kind = "fail"
        THEN Outcome([thrown |-> answers.compose.error], calls, 0, 0)
        ELSE Outcome([returned |-> [date |-> Null,
                                    availableSlots |-> Null,
                                    intent |-> extracted.intent,
                                    reply |-> answers.compose.content]],
                     calls, 0, 0)

\* a check that only refuses a request without message
MessageUndefined(message) == message.kind = "undefined"

\* !message || message.trim() === ''
MessageAbsent(message) ==
    \/ message.kind = "undefined"
    \/ message.text = ""
    \/ Trim(message.text) = ""

MessageRequired == [status |-> 400, success |-> FALSE, error |-> "Message is required"]

FailedToProcess == "Failed to process message. Please try again."

\* the error text of the classifying controller
ClassifyError(error) ==
    IF MessageIncludes(error, "API key expired")
    THEN "The AI service API key has expired. Please contact the administrator."
    ELSE IF MessageIncludes(error, "quota")
    THEN "The AI service quota has been exceeded. Please try again later."
    ELSE IF MessageIncludes(error, "overloaded")
    THEN "The AI service is currently overloaded. Please try again in a moment."
    ELSE FailedToProcess

\* the error text of the controller in use
ErrorTextOf(controller, error) ==
    IF controller = "classifying" THEN ClassifyError(error) ELSE FailedToProcess

\* what the handler has done when it answers
ChatLocals(calls, slotCalls, storeCalls, thrown) ==
    [reached |-> TRUE, storeCalls |-> storeCalls, thrown |-> thrown,
     calls |-> calls, slotCalls |-> slotCalls]

\* nothing done: no call of the oracle, no slot computation, no read of the store
NothingDone == ChatLocals(<<>>, 0, 0, Null)

\* handleChatMessage: response and what was done for it
HandleChatMessage(controller, service, message, answers, appts, off) ==
    IF MessageAbsent(message)
    THEN [resp |-> MessageRequired, locals |-> NothingDone]
    ELSE
      LET out == ProcessChatMessage(service, answers, appts, off)
      IN
      IF "thrown" \in DOMAIN out.result
      THEN [resp |-> [status |-> 500, success |-> FALSE,
                      error |-> ErrorTextOf(controller, out.result.thrown)],
            locals |-> ChatLocals(out.calls, out.slotCalls, out.storeCalls, out.result.thrown)]
      ELSE [resp |-> [status |-> 200, success |-> TRUE, data |-> out.result.returned],
            locals |-> ChatLocals(out.calls, out.slotCalls, out.storeCalls, Null)]

\* POST /chatbot/message
PostChatMessage(controller, service, message, answers) ==
    \E out \in {HandleChatMessage(controller, service, message, answers, appointments, tz)} :
        /\ req' = [message |-> message, op |-> "chatMessage", service |-> service,
                   answers |-> answers, controller |-> controller]
        /\ resp' = out.resp
        /\ locals' = out.locals
        /\ UNCHANGED <<tz, appointments, db>>

NextChat ==
    \/ \E t \in ChatBookingTimes : CreateAppointment("none", t)
    \/ \E controller \in Controllers, service \in Services, message \in Messages,
          extract \in ExtractionAnswers, compose \in CompositionAnswers :
          PostChatMessage(controller, service, message,
                          [extract |-> extract, compose |-> compose])

SpecChat == Init /\ [][NextChat]_vars

----------------------------------------------------------------------------
(* The terms of the properties, written from the specification and not     *)
(* from the handlers.                                                      *)

\* calendar day, hour and minute that the host's clock shows at instant t
ClockDay(t) == (t + tz * 60) \div 1440
ClockHour(t) == ((t + tz * 60) \div 60) % 24
ClockMinute(t) == (t + tz * 60) % 60

\* Days are read on the host's clock.  A YYYY-MM-DD string denotes the
\* instant of UTC midnight of that date; the host's clock places that instant
\* on the same calendar day east of Greenwich and on the day before west of
\* it.  QueriedDay is the day of that instant on the host's clock: the day a
\* request is about in C1..C9.  Whether it is the calendar date written in
\* the string is the subject of C10 alone.
QueriedDay == IF tz >= 0 THEN req.date.day ELSE req.date.day - 1

\* 0 = Sunday .. 6 = Saturday
Weekday(day) == day % 7

\* business-hours policy: Sunday closed, Saturday [8, 19), other days [9, 18)
PolicyHours(day) ==
    IF Weekday(day) = 0 THEN {}
    ELSE IF Weekday(day) = 6 THEN 8..18
    ELSE 9..17

Occupies(status) == status \in {"scheduled", "confirmed", "in_progress"}

\* the bookings of a day, and the occupying ones among them
BookingsOn(day) == {i \in DOMAIN appointments : ClockDay(appointments[i].scheduledDate) = day}
OccupyingOn(day) == {i \in BookingsOn(day) : Occupies(appointments[i].status)}
OccupyingAt(day, h) ==
    {i \in OccupyingOn(day) : ClockHour(appointments[i].scheduledDate) = h}

\* the label of hour h on the 12-hour clock
Label12(h) ==
    TimeText(IF h % 12 = 0 THEN 12 ELSE h % 12, 0, 1, IF h < 12 THEN " AM" ELSE " PM")

\* a request for the slots of a YYYY-MM-DD date has been answered ...
HttpAsked == req.op = "availableSlots" /\ req.date.kind = "ymd"
ChatAsked == req.op = "chatSlots" /\ req.date.kind = "ymd"
FixedChatAsked == req.op = "fixedChatSlots" /\ req.date.kind = "ymd"

\* ... with the slot list of an open day
HttpOpen == HttpAsked /\ resp.status = 200 /\ "totalSlots" \in DOMAIN resp.data

SlotHours(slots) == {slots[i].hour : i \in DOMAIN slots}
Range(seq) == {seq[i] : i \in DOMAIN seq}

----------------------------------------------------------------------------
LabelHour(text) ==
    IF text.suffix = "" THEN text.hh
    ELSE IF text.suffix = " AM" THEN text.hh % 12
    ELSE (text.hh % 12) + 12
LabelHours(labels) == [i \in DOMAIN labels |-> LabelHour(labels[i])]

(* C3: On an open day without bookings the result is exactly the hours of  *)
(* the day's policy in ascending order: 9 slots for hours 9..17 on Monday  *)
(* to Friday, 11 slots for hours 8..18 on Saturday, labelled on the        *)
(* 12-hour clock; in the endpoint and in both chat implementations.  The   *)
(* second chat implementation writes its labels as "HH:00"; it is held     *)
(* only to the hours its labels name.                                      *)
ExpectedHours(day) ==
    LET first == IF Weekday(day) = 6 THEN 8 ELSE 9
    IN  [i \in 1..Cardinality(PolicyHours(day)) |-> first + i - 1]
ExpectedLabels(day) ==
    [i \in 1..Len(ExpectedHours(day)) |-> Label12(ExpectedHours(day)[i])]
OpenAndFree == Weekday(QueriedDay) # 0 /\ BookingsOn(QueriedDay) = {}

C3_ExactPolicyHours ==
    /\ (HttpAsked /\ OpenAndFree) =>
          /\ HttpOpen
          /\ [i \in DOMAIN resp.data.availableSlots |-> resp.data.availableSlots[i].hour]
                = ExpectedHours(QueriedDay)
          /\ [i \in DOMAIN resp.data.availableSlots |-> resp.data.availableSlots[i].display]
                = ExpectedLabels(QueriedDay)
    /\ (ChatAsked /\ OpenAndFree) => resp = [returned |-> ExpectedLabels(QueriedDay)]
    /\ (FixedChatAsked /\ OpenAndFree) =>
          LabelHours(resp.returned) = ExpectedHours(QueriedDay)

(* C4: Several occupying bookings at one hour count once: the available    *)
(* slots are the total less the distinct occupied hours of the business    *)
(* hours, and bookedSlots is the number of distinct occupied hours.        *)
OccupiedHours(day) == {ClockHour(appointments[i].scheduledDate) : i \in OccupyingOn(day)}

C4_DuplicatesCountedOnce ==
    HttpOpen =>
        /\ Len(resp.data.availableSlots)
              = resp.data.totalSlots
                  - Cardinality(OccupiedHours(QueriedDay) \cap PolicyHours(QueriedDay))
        /\ resp.data.bookedSlots = Cardinality(OccupiedHours(QueriedDay))

(* C5: bookedSlots counts only hours inside the day's business hours: the  *)
(* occupying bookings of the day at hours outside them leave it unchanged, *)
(* so it is what the same request reports on the table without them.       *)
OutsideHours(row) ==
    /\ ClockDay(row.scheduledDate) = QueriedDay
    /\ Occupies(row.status)
    /\ ClockHour(row.scheduledDate) \notin PolicyHours(QueriedDay)

C5_OutsideHoursNotCounted ==
    HttpOpen =>
        resp.data.bookedSlots =
            HttpGetAvailableTimeSlots(
                req.date, SelectSeq(appointments, LAMBDA row : ~OutsideHours(row)), tz
            ).resp.data.bookedSlots

(* C6: A date value that is no calendar date is rejected with 400, and no  *)
(* business hours are derived and no slot list is returned for it.         *)
C6_InvalidDateRejected ==
    (req.op = "availableSlots" /\ req.date.kind = "garbage") =>
        /\ resp.status = 400
        /\ "data" \notin DOMAIN resp
        /\ ~locals.reached

(* C7: For the same date and the same bookings the chat service returns    *)
(* exactly the display labels of the endpoint's available slots.  The      *)
(* second chat implementation writes its labels as "HH:00"; it is held     *)
(* only to naming the same hours in the same order.                        *)
EndpointLabels ==
    Displays(HttpGetAvailableTimeSlots(req.date, appointments, tz).resp.data.availableSlots)

C7_ChatMatchesEndpoint ==
    /\ ChatAsked => resp = [returned |-> EndpointLabels]
    /\ FixedChatAsked => LabelHours(resp.returned) = LabelHours(EndpointLabels)

(* C8: The available slots of every answer are in strictly ascending hour  *)
(* order, so no hour appears twice, whatever the date and the bookings;    *)
(* the labels the chat service returns name strictly ascending hours too.  *)
StrictlyAscending(hours) == \A i, j \in DOMAIN hours : i < j => hours[i] < hours[j]

C8_StrictlyAscending ==
    /\ (req.op = "availableSlots" /\ resp.status = 200) =>
          StrictlyAscending([i \in DOMAIN resp.data.availableSlots |->
                                resp.data.availableSlots[i].hour])
    /\ (req.op \in {"chatSlots", "fixedChatSlots"} /\ "returned" \in DOMAIN resp) =>
          StrictlyAscending(LabelHours(resp.returned))

\* an answer listing several slots for a day with two occupying bookings at
\* one hour
C8_Witness ==
    /\ HttpOpen
    /\ Len(resp.data.availableSlots) >= 2
    /\ \E h \in PolicyHours(QueriedDay) : Cardinality(OccupyingAt(QueriedDay, h)) >= 2

(* C9: Conflicts are decided by the hour: an occupying booking at any      *)
(* minute of hour h removes the slot of hour h, in the endpoint and in     *)
(* both chat implementations.                                              *)
C9_HourGranularity ==
    \A i \in (IF HttpAsked \/ ChatAsked \/ FixedChatAsked
               THEN OccupyingOn(QueriedDay) ELSE {}) :
        LET h == ClockHour(appointments[i].scheduledDate)
        IN  /\ HttpOpen => h \notin SlotHours(resp.data.availableSlots)
            /\ (ChatAsked \/ FixedChatAsked) =>
                  /\ Label12(h) \notin Range(resp.returned)
                  /\ TimeText(h, 0, 2, "") \notin Range(resp.returned)

(* C10: For every YYYY-MM-DD string and every host timezone offset, the    *)
(* day of week that selects the business hours is the weekday of that      *)
(* calendar date.                                                          *)
C10_WeekdayOfCalendarDate ==
    (HttpAsked \/ ChatAsked) => locals.dayOfWeek = Weekday(req.date.day)

(* C11: Only the bookings inside the queried day's bound, from its first   *)
(* minute 00:00 to its last minute 23:59 inclusive, affect the answer: the *)
(* answer is the one the same request gets on the table without the        *)
(* bookings of other days, no occupying booking of the day leaves its hour *)
(* listed, and bookedSlots is above zero exactly when the day has an       *)
(* occupying booking.                                                      *)
OnQueriedDay(row) == ClockDay(row.scheduledDate) = QueriedDay

C11_WitnessFirstMinute ==
    /\ HttpOpen
    /\ \E i \in OccupyingOn(QueriedDay) :
          /\ ClockHour(appointments[i].scheduledDate) = 0
          /\ ClockMinute(appointments[i].scheduledDate) = 0
    /\ Cardinality(OccupyingOn(QueriedDay)) = 1
    /\ resp.data.bookedSlots = 1

(* C12: A request to the availability endpoint without a date parameter is *)
(* answered 400 {success: false, error: "Date is required"}, and the       *)
(* handler derives no day of week and reads no bookings for it.            *)
C12_MissingDateRejected ==
    (req.op = "availableSlots" /\ req.date.kind = "missing") =>
        /\ resp = [status |-> 400, success |-> FALSE, error |-> "Date is required"]
        /\ ~locals.reached
        /\ "storeCalls" \notin DOMAIN locals

\* a request without date has been answered while the table holds bookings
C12_Witness ==
    /\ req.op = "availableSlots"
    /\ req.date.kind = "missing"
    /\ resp.status = 400
    /\ appointments # <<>>

----------------------------------------------------------------------------
(* The labels of the hours.  The controller and the first chat service     *)
(* each carry a copy of formatHourDisplay; a step labels one hour with     *)
(* each copy.                                                              *)

\* formatHourDisplay of the chat service
formatHourDisplayOfChat(hour) ==
    LET period == IF hour >= 12 THEN "PM" ELSE "AM"
        displayHour == IF hour > 12 THEN hour - 12 ELSE IF hour = 0 THEN 12 ELSE hour
    IN  TimeText(displayHour, 0, 1, IF period = "PM" THEN " PM" ELSE " AM")

\* the hours of a day
Hours == 0..(HoursPerDay - 1)

FormatHours(hour, other) ==
    /\ req' = [hour |-> hour, op |-> "formatHours", other |-> other]
    /\ resp' = [display |-> <<formatHourDisplay(hour), formatHourDisplay(other)>>,
                displayOfChat |-> <<formatHourDisplayOfChat(hour),
                                    formatHourDisplayOfChat(other)>>]
    /\ locals' = NoLocals
    /\ UNCHANGED <<tz, appointments, db>>

NextLabel == \E hour \in Hours, other \in Hours : FormatHours(hour, other)

SpecLabel == Init /\ [][NextLabel]_vars

----------------------------------------------------------------------------
(* Terms of the chat properties *)

\* a chat request has been answered; its message was a text
MessagePosted == req.op = "chatMessage"
MessageGiven ==
    /\ MessagePosted
    /\ req.message.kind = "string"
    /\ req.message.text \notin {"", "   "}

\* what the oracle answered to the extraction call
OracleAnswered == MessageGiven /\ req.answers.extract.kind = "content"
OracleGaveJson == OracleAnswered /\ req.answers.extract.content.kind = "json"
OracleGaveNoJson == OracleAnswered /\ req.answers.extract.content.kind \in {"plain", "broken"}
ReplyComposed == req.answers.compose.kind = "content"

\* the intent and date the orchestration is to work with
ExpectedIntent == IF OracleGaveJson THEN req.answers.extract.content.value.intent ELSE "other"
ExpectedDate == IF OracleGaveJson THEN req.answers.extract.content.value.date ELSE Null

\* the number of calls of the oracle made with one of the given prompts
CallsWith(prompts) == Cardinality({i \in DOMAIN locals.calls : locals.calls[i] \in prompts})
CompositionPrompts == {"closedOnSunday", "timeSlots", "general"}

(* C13: When the date in the oracle's JSON is no calendar date, the        *)
(* orchestration falls back to intent "other" with date null: the slot     *)
(* computation is not invoked, and with a reply composed the caller gets   *)
(* a normal answer.                                                        *)
C13_InvalidOracleDateFallsBack ==
    (OracleGaveJson /\ ExpectedDate = BadDate) =>
        /\ locals.slotCalls = 0
        /\ ReplyComposed =>
              /\ resp.status = 200
              /\ resp.data.intent = "other"
              /\ resp.data.date = Null
              /\ resp.data.availableSlots = Null

(* C14: When the oracle's text holds no JSON object that can be parsed,    *)
(* the extraction yields intent "other" with date null and throws nothing: *)
(* the request goes on to the general reply, and it fails only if that     *)
(* second call of the oracle fails.                                        *)
C14_UnparsableTextFallsBack ==
    OracleGaveNoJson =>
        /\ locals.calls = <<"extraction", "general">>
        /\ locals.slotCalls = 0
        /\ IF ReplyComposed
           THEN /\ resp.status = 200
                /\ resp.data.intent = "other"
                /\ resp.data.date = Null
                /\ resp.data.availableSlots = Null
           ELSE locals.thrown = req.answers.compose.error

\* text with a brace pair that is no JSON has been answered 200 as "other"
C14_Witness ==
    /\ OracleGaveNoJson
    /\ req.answers.extract.content.kind = "broken"
    /\ resp.status = 200
    /\ resp.data.intent = "other"

(* C15: processChatMessage returns a slot list together with the date if   *)
(* and only if the extracted intent is "appointment_query" and a date was  *)
(* resolved; otherwise it returns availableSlots null and date null with   *)
(* the extracted intent and does not invoke the slot computation.          *)
C15_SlotsIffAppointmentQueryWithDate ==
    (MessageGiven /\ resp.status = 200) =>
        IF ExpectedIntent = "appointment_query" /\ ExpectedDate # Null
        THEN /\ resp.data.availableSlots # Null
             /\ resp.data.date = ExpectedDate
             /\ resp.data.intent = "appointment_query"
             /\ locals.slotCalls = 1
        ELSE /\ resp.data.availableSlots = Null
             /\ resp.data.date = Null
             /\ resp.data.intent = ExpectedIntent
             /\ locals.slotCalls = 0
             /\ locals.storeCalls = 0

\* an appointment question with a date has been answered with slots ...
C15_Witness ==
    /\ MessageGiven
    /\ resp.status = 200
    /\ ExpectedIntent = "appointment_query"
    /\ ExpectedDate # Null
    /\ resp.data.availableSlots # Null
    /\ Len(resp.data.availableSlots.items) > 0
    /\ appointments # <<>>

\* ... and one without date, and a greeting that names a date, without
C15_WitnessNoDate ==
    /\ MessageGiven
    /\ resp.status = 200
    /\ ExpectedIntent = "appointment_query"
    /\ ExpectedDate = Null
    /\ resp.data.availableSlots = Null

C15_WitnessGreeting ==
    /\ MessageGiven
    /\ resp.status = 200
    /\ ExpectedIntent = "greeting"
    /\ ExpectedDate # Null
    /\ resp.data.availableSlots = Null

(* C16: POST /chatbot/message with a missing, empty or whitespace-only     *)
(* message is answered 400 {success: false, error: "Message is required"}  *)
(* with no call of the oracle and no read of the booking store.            *)
C16_MessageRequired ==
    (MessagePosted /\ ~MessageGiven) =>
        /\ resp = [status |-> 400, success |-> FALSE, error |-> "Message is required"]
        /\ locals.calls = <<>>
        /\ locals.slotCalls = 0
        /\ locals.storeCalls = 0

\* a whitespace-only message has been refused while the table holds bookings
C16_Witness ==
    /\ MessagePosted
    /\ req.message.kind = "string"
    /\ req.message.text = "   "
    /\ resp.status = 400
    /\ appointments # <<>>

(* C17: No oracle failure is retried: for one chat message the extraction  *)
(* oracle is called at most once and the composition oracle at most once;  *)
(* when a call fails it is the last call, the failure is what reaches the  *)
(* HTTP layer, and the request ends with 500.                              *)
C17_NoRetry ==
    MessagePosted =>
        /\ CallsWith({"extraction"}) <= 1
        /\ CallsWith(CompositionPrompts) <= 1
        /\ (MessageGiven /\ req.answers.extract.kind = "fail") =>
              /\ locals.calls = <<"extraction">>
              /\ locals.thrown = req.answers.extract.error
              /\ resp.status = 500
        /\ (CallsWith(CompositionPrompts) = 1 /\ req.answers.compose.kind = "fail") =>
              /\ Len(locals.calls) = 2
              /\ locals.thrown = req.answers.compose.error
              /\ resp.status = 500

\* the composition call has failed after a slot computation that read the store
C17_Witness ==
    /\ MessageGiven
    /\ locals.calls = <<"extraction", "timeSlots">>
    /\ req.answers.compose.kind = "fail"
    /\ locals.storeCalls = 1
    /\ resp.status = 500

\* the extraction call has failed
C17_WitnessExtraction ==
    /\ MessageGiven
    /\ req.answers.extract.kind = "fail"
    /\ locals.calls = <<"extraction">>
    /\ resp.status = 500

(* C18: A failure of the chat service is answered 500 with a text chosen   *)
(* from the error's message: the API-key text if it contains "API key      *)
(* expired", else the quota text if it contains "quota", else the          *)
(* overloaded text if it contains "overloaded", else "Failed to process    *)
(* message. Please try again.".                                            *)
Mentions(phrase) == locals.thrown.hasMessage /\ phrase \in locals.thrown.contains

C18_ErrorTextByContent ==
    (MessageGiven /\ locals.thrown # Null) =>
        /\ resp.status = 500
        /\ resp.success = FALSE
        /\ resp.error =
              IF Mentions("API key expired")
              THEN "The AI service API key has expired. Please contact the administrator."
              ELSE IF Mentions("quota")
              THEN "The AI service quota has been exceeded. Please try again later."
              ELSE IF Mentions("overloaded")
              THEN "The AI service is currently overloaded. Please try again in a moment."
              ELSE "Failed to process message. Please try again."

ExpectedLabel(h) ==
    IF h = 0 THEN TimeText(12, 0, 1, " AM")
    ELSE IF h \in 1..11 THEN TimeText(h, 0, 1, " AM")
    ELSE IF h = 12 THEN TimeText(12, 0, 1, " PM")
    ELSE TimeText(h - 12, 0, 1, " PM")

C20_TwelveHourLabels ==
    req.op = "formatHours" =>
        /\ resp.display = <<ExpectedLabel(req.hour), ExpectedLabel(req.other)>>
        /\ resp.displayOfChat = resp.display
        /\ (req.hour # req.other) => (resp.display[1] # resp.display[2])

\* midnight and noon have been labelled: both "12:00", told apart by AM and PM
C20_Witness ==
    /\ req.op = "formatHours"
    /\ req.hour = 0
    /\ req.other = 12
    /\ resp.display[1].hh = resp.display[2].hh
    /\ resp.display[1] # resp.display[2]

----------------------------------------------------------------------------
(* Availability requests running concurrently.  The handler awaits once,   *)
(* at findMany: a request runs to that call, the store answers it at some  *)
(* later time with the rows it holds then, and the handler computes its    *)
(* response from those rows.  Bookings are written in between.             *)

\* the requests in flight at one time
Queries == {1, 2}

\* the dates asked for: Monday 8, Tuesday 9
ConcurrentQueryDates == {Ymd(8), Ymd(9)}

\* local date and time strings of the bookings: Monday 8 10:00
ConcurrentBookingTimes == { [date |-> 8, hour |-> 10, minute |-> 0] }

\* a request: the response once sent, the date parameter, the position in
\* the handler, the rows findMany gave it, and the table as it was then
Query(response, date, pc, existing, seen) ==
    [resp |-> response, date |-> date, existing |-> existing, pc |-> pc, seen |-> seen]

IdleQuery == Query(NoResponse, NoDate, "idle", <<>>, <<>>)

InitConcurrent ==
    /\ tz \in TZOffsets
    /\ db = NoTables
    /\ appointments = <<>>
    /\ req = NoRequest
    /\ resp = NoResponse
    /\ locals = [q \in Queries |-> IdleQuery]

\* the handler up to its await: the answers that need no rows are sent at
\* once; otherwise findMany is called with the bounds of the day
BeginQuery(q, date) ==
    /\ locals[q].pc \in {"idle", "done"}
    /\ LET selectedDate == ParseDateOnly(date)
           dayOfWeek == getDay(selectedDate, tz)
       IN  locals' = [locals EXCEPT ![q] =
               IF DateMissing(date) THEN Query(DateRequired, date, "done", <<>>, <<>>)
               ELSE IF dayOfWeek = 0 THEN Query(ClosedOnSundays, date, "done", <<>>, <<>>)
               ELSE IF StartOfDay(selectedDate, tz) = NaN
                    THEN Query(FailedToFetch, date, "done", <<>>, <<>>)
               ELSE Query(NoResponse, date, "findMany", <<>>, <<>>)]
    /\ UNCHANGED <<tz, appointments, req, resp, db>>

\* the store answers findMany with the rows it holds now
ReadBookings(q) ==
    /\ locals[q].pc = "findMany"
    /\ LET selectedDate == ParseDateOnly(locals[q].date)
           existingAppointments ==
               FindOccupying(appointments, StartOfDay(selectedDate, tz),
                             EndOfDay(selectedDate, tz))
       IN  locals' = [locals EXCEPT ![q] =
               Query(NoResponse, locals[q].date, "respond", existingAppointments, appointments)]
    /\ UNCHANGED <<tz, appointments, req, resp, db>>

\* the response of the handler from the rows it was given
ResponseFrom(date, existingAppointments, off) ==
    LET dayOfWeek == getDay(ParseDateOnly(date), off)
        startHour == StartHourOf(dayOfWeek)
        endHour == EndHourOf(dayOfWeek)
        allSlots == AllSlots(startHour, endHour)
        bookedHours == BookedHours(existingAppointments, off)
    IN  [status |-> 200, success |-> TRUE,
         data |-> [date |-> date,
                   dayOfWeek |-> getDayName(dayOfWeek),
                   availableSlots |-> FilterAvailable(allSlots, bookedHours),
                   businessHours |-> <<formatHourDisplay(startHour),
                                       formatHourDisplay(endHour)>>,
                   totalSlots |-> Len(allSlots),
                   bookedSlots |-> Len(bookedHours)]]

\* a handler that asks the store again when it composes its response
RespondReadingAgain(q) ==
    /\ locals[q].pc = "respond"
    /\ LET selectedDate == ParseDateOnly(locals[q].date)
           existingAppointments ==
               FindOccupying(appointments, StartOfDay(selectedDate, tz),
                             EndOfDay(selectedDate, tz))
       IN  locals' = [locals EXCEPT ![q] =
               Query(ResponseFrom(locals[q].date, existingAppointments, tz),
                     locals[q].date, "done", locals[q].existing, locals[q].seen)]
    /\ UNCHANGED <<tz, appointments, req, resp, db>>

\* the handler after its await: bookedHours, the filter and res.json
Respond(q) ==
    /\ locals[q].pc = "respond"
    /\ locals' = [locals EXCEPT ![q] =
           Query(ResponseFrom(locals[q].date, locals[q].existing, tz),
                 locals[q].date, "done", locals[q].existing, locals[q].seen)]
    /\ UNCHANGED <<tz, appointments, req, resp, db>>

\* the write of createAppointment: prisma.appointment.create
WriteBooking(t) ==
    /\ Len(appointments) < MaxAppts
    /\ appointments' =
           InsertRow(appointments,
                     Appointment(ParseLocalDateTime(t.date, t.hour, t.minute, tz), "scheduled"))
    /\ UNCHANGED <<tz, req, resp, locals, db>>

\* the write of cancelAppointment: prisma.appointment.update to cancelled
WriteCancellation(id) ==
    /\ appointments[id].status # "cancelled"
    /\ appointments' =
           UpdateRow(appointments, id, Appointment(appointments[id].scheduledDate, "cancelled"))
    /\ UNCHANGED <<tz, req, resp, locals, db>>

NextConcurrent ==
    \/ \E q \in Queries, date \in ConcurrentQueryDates : BeginQuery(q, date)
    \/ \E q \in Queries : ReadBookings(q)
    \/ \E q \in Queries : Respond(q)
    \/ \E t \in ConcurrentBookingTimes : WriteBooking(t)
    \/ \E id \in DOMAIN appointments : WriteCancellation(id)

SpecConcurrent == InitConcurrent /\ [][NextConcurrent]_vars

(* C21: Availability requests running concurrently are independent: under *)
(* every interleaving each answer is the one a computation alone on the    *)
(* request's date and on the table as the request read it gives, and no    *)
(* step of a request creates, changes or deletes a booking.                *)
AnsweredAlone(q) ==
    locals[q].pc = "done" =>
        locals[q].resp = HttpGetAvailableTimeSlots(locals[q].date, locals[q].seen, tz).resp

C21_ConcurrentQueriesIndependent ==
    /\ [](\A q \in Queries : AnsweredAlone(q))
    /\ [][locals' # locals => appointments' = appointments]_vars

\* two requests for one date have been answered differently, each from the
\* table it read, and the table has changed since
C21_Witness ==
    /\ locals[1].pc = "done"
    /\ locals[2].pc = "done"
    /\ locals[1].date = locals[2].date
    /\ locals[1].resp.status = 200
    /\ locals[2].resp.status = 200
    /\ locals[1].resp # locals[2].resp
    /\ locals[1].seen # appointments
    /\ locals[2].seen # appointments

----------------------------------------------------------------------------
(* Deleting users.  deleteUser awaits three times: findUnique, count (for  *)
(* an admin) and delete.  Requests run interleaved between their awaits.   *)

\* the ids of the rows of the users table
UserIds == 1 .. 3

\* a :userId of no row
NoUser == 0

\* the roles a user row is created with here
InitialRoles == {"admin", "customer"}

\* the requests in flight at one time
Deleters == {1, 2}

\* a row of the users table
User(role) == [role |-> role]

\* prisma.user.count({where: {role: 'admin'}})
CountAdmins(users) ==
    Cardinality({u \in DOMAIN users : users[u] # Null /\ users[u].role = "admin"})

UserNotFound == [status |-> 404, success |-> FALSE, error |-> "User not found"]
CannotDeleteLastAdmin ==
    [status |-> 400, success |-> FALSE, error |-> "Cannot delete the last admin user"]
FailedToDeleteUser == [status |-> 500, success |-> FALSE, error |-> "Failed to delete user"]
UserDeleted == [status |-> 200, success |-> TRUE, message |-> "User deleted successfully"]

\* a deleteUser request: the response once sent, its position, the row
\* findUnique gave it, the :userId and the table when it began
Deletion(response, pc, user, userId, before) ==
    [resp |-> response, pc |-> pc, user |-> user, userId |-> userId, before |-> before]

NoDeletion == Deletion(NoResponse, "idle", Null, NoUser, <<>>)

InitUsers ==
    /\ tz = 0
    /\ appointments = <<>>
    /\ req = NoRequest
    /\ resp = NoResponse
    /\ locals = [r \in Deleters |-> NoDeletion]
    /\ \E roles \in [UserIds -> InitialRoles] :
           db = [users |-> [u \in UserIds |-> User(roles[u])]]

\* prisma.user.findUnique({where: {id}}): the row or null
FindUser(users, userId) == IF userId \in DOMAIN users THEN users[userId] ELSE Null

\* DELETE /users/:userId arrives
BeginDelete(r, userId) ==
    /\ locals[r].pc \in {"idle", "done"}
    /\ locals' = [locals EXCEPT ![r] =
           Deletion(NoResponse, "findUnique", Null, userId, db.users)]
    /\ UNCHANGED <<tz, appointments, req, resp, db>>

\* the store answers findUnique; 404 for no row; an admin goes on to count
FoundForDelete(r) ==
    /\ locals[r].pc = "findUnique"
    /\ LET user == FindUser(db.users, locals[r].userId)
       IN  locals' = [locals EXCEPT ![r] =
               IF user = Null
               THEN Deletion(UserNotFound, "done", Null, locals[r].userId, locals[r].before)
               ELSE Deletion(NoResponse, IF user.role = "admin" THEN "count" ELSE "delete",
                             user, locals[r].userId, locals[r].before)]
    /\ UNCHANGED <<tz, appointments, req, resp, db>>

\* the store answers count; 400 when adminCount <= 1
CountedForDelete(r) ==
    /\ locals[r].pc = "count"
    /\ LET adminCount == CountAdmins(db.users)
       IN  locals' = [locals EXCEPT ![r] =
               IF adminCount <= 1
               THEN Deletion(CannotDeleteLastAdmin, "done", locals[r].user,
                             locals[r].userId, locals[r].before)
               ELSE Deletion(NoResponse, "delete", locals[r].user,
                             locals[r].userId, locals[r].before)]
    /\ UNCHANGED <<tz, appointments, req, resp, db>>

\* prisma.user.delete({where: {id}}): throws when the row is gone (500)
DeleteRow(r) ==
    /\ locals[r].pc = "delete"
    /\ LET userId == locals[r].userId
       IN  IF db.users[userId] = Null
           THEN /\ locals' = [locals EXCEPT ![r] =
                       Deletion(FailedToDeleteUser, "done", locals[r].user, userId,
                                locals[r].before)]
                /\ db' = db
           ELSE /\ locals' = [locals EXCEPT ![r] =
                       Deletion(UserDeleted, "done", locals[r].user, userId,
                                locals[r].before)]
                /\ db' = [db EXCEPT !.users[userId] = Null]
    /\ UNCHANGED <<tz, appointments, req, resp>>

NextUsers ==
    \/ \E r \in Deleters, userId \in UserIds \cup {NoUser} : BeginDelete(r, userId)
    \/ \E r \in Deleters : FoundForDelete(r)
    \/ \E r \in Deleters : CountedForDelete(r)
    \/ \E r \in Deleters : DeleteRow(r)

SpecUsers == InitUsers /\ [][NextUsers]_vars

(* C22: The last admin user is never deleted.  A deleteUser request for an *)
(* admin, made while at most one admin exists, is answered 400 'Cannot     *)
(* delete the last admin user' and deletes nothing; and under every        *)
(* interleaving of deleteUser requests no step takes the number of admin   *)
(* users from at least one to none.                                        *)
LastAdminRefused(r) ==
    (/\ locals[r].pc = "done"
     /\ locals[r].userId \in UserIds
     /\ locals[r].before[locals[r].userId] # Null
     /\ locals[r].before[locals[r].userId].role = "admin"
     /\ CountAdmins(locals[r].before) <= 1
     /\ \A o \in Deleters \ {r} : locals[o].pc \in {"idle", "done"})
    => locals[r].resp = CannotDeleteLastAdmin

C22_LastAdminNeverDeleted ==
    /\ [](\A r \in Deleters : LastAdminRefused(r))
    /\ [][CountAdmins(db.users) >= 1 => CountAdmins(db'.users) >= 1]_vars

----------------------------------------------------------------------------
(* Modification projects of customers: updateProject and deleteProject of  *)
(* the customer, updateModificationStatus of the admin.                    *)

ProjectStatus == {"pending", "approved", "in_progress", "completed", "cancelled"}

\* the ids of the rows of the projects table
ProjectIds == {1, 2}

\* a :projectId of no row
NoProject == 0

\* users 1 and 2 have a customer profile (customers.id 11 and 12), user 3 has none
ProjectUsers == {1, 2, 3}
CustomerOf(userId) == IF userId = 1 THEN [id |-> 11] ELSE IF userId = 2 THEN [id |-> 12] ELSE Null

\* project 1 is of customer 11, project 2 of customer 12
OwnerOf(projectId) == 10 + projectId

\* the body fields sent: a title (or none) and an estimatedCost (or none,
\* or one that is no number)
Titles == {Undefined, "Lift kit"}
Costs == {Undefined, "250", "abc"}

\* parseFloat on the strings sent
parseFloat(text) == IF text = "250" THEN 250 ELSE NaN

\* a row of the projects table; the columns the customer's handlers read or write
Project(customerId, status, title, estimatedCost) ==
    [status |-> status, customerId |-> customerId, title |-> title,
     estimatedCost |-> estimatedCost]

\* the row createProject writes for a request with title and budget
CreatedProject(customerId) == Project(customerId, "pending", "Custom Modification Request", 100)

InitProjects ==
    /\ tz = 0
    /\ appointments = <<>>
    /\ req = NoRequest
    /\ resp = NoResponse
    /\ locals = NoLocals
    /\ db = [projects |-> [p \in ProjectIds |-> CreatedProject(OwnerOf(p))]]

CustomerProfileNotFound ==
    [status |-> 404, success |-> FALSE, error |-> "Customer profile not found"]
CannotBeModified ==
    [status |-> 404, success |-> FALSE,
     error |-> "Modification request not found or cannot be modified"]
CannotBeDeleted ==
    [status |-> 404, success |-> FALSE,
     error |-> "Modification request not found or cannot be deleted"]
FailedToUpdateProject ==
    [status |-> 500, success |-> FALSE, error |-> "Failed to update modification request"]
ProjectUpdated(updatedProject) ==
    [status |-> 200, success |-> TRUE, data |-> updatedProject,
     message |-> "Modification request updated successfully"]
ProjectDeleted ==
    [status |-> 200, success |-> TRUE,
     message |-> "Modification request deleted successfully"]
ModificationNotFound ==
    [status |-> 404, success |-> FALSE, error |-> "Modification request not found"]

\* prisma.project.findFirst({where: {id, customerId}}): no status condition
FindOwn(projects, projectId, customerId) ==
    IF /\ projectId \in DOMAIN projects
       /\ projects[projectId] # Null
       /\ projects[projectId].customerId = customerId
    THEN projects[projectId]
    ELSE Null

\* prisma.project.findFirst({where: {id, customerId, status: 'pending'}})
FindOwnPending(projects, projectId, customerId) ==
    IF /\ projectId \in DOMAIN projects
       /\ projects[projectId] # Null
       /\ projects[projectId].customerId = customerId
       /\ projects[projectId].status = "pending"
    THEN projects[projectId]
    ELSE Null

\* a || b on strings: the empty string and undefined are falsy
OrElse(a, b) == IF a = Undefined \/ a = "" THEN b ELSE a

\* PUT /projects/:projectId of the customer
UpdateProject(userId, projectId, title, estimatedCost) ==
    /\ req' = [op |-> "updateProject", userId |-> userId, projectId |-> projectId,
               title |-> title, estimatedCost |-> estimatedCost]
    /\ locals' = NoLocals
    /\ LET customer == CustomerOf(userId)
           project == FindOwnPending(db.projects, projectId, customer.id)
           cost == IF estimatedCost # Undefined THEN parseFloat(estimatedCost)
                   ELSE project.estimatedCost
           updatedProject ==
               Project(project.customerId, project.status, OrElse(title, project.title), cost)
       IN  IF customer = Null
           THEN resp' = CustomerProfileNotFound /\ db' = db
           ELSE IF project = Null
           THEN resp' = CannotBeModified /\ db' = db
           ELSE IF cost = NaN
           THEN resp' = FailedToUpdateProject /\ db' = db
           ELSE /\ resp' = ProjectUpdated(updatedProject)
                /\ db' = [db EXCEPT !.projects[projectId] = updatedProject]
    /\ UNCHANGED <<tz, appointments>>

\* DELETE /projects/:projectId of the customer
DeleteProject(userId, projectId) ==
    /\ req' = [op |-> "deleteProject", userId |-> userId, projectId |-> projectId]
    /\ locals' = NoLocals
    /\ LET customer == CustomerOf(userId)
           project == FindOwnPending(db.projects, projectId, customer.id)
       IN  IF customer = Null
           THEN resp' = CustomerProfileNotFound /\ db' = db
           ELSE IF project = Null
           THEN resp' = CannotBeDeleted /\ db' = db
           ELSE /\ resp' = ProjectDeleted
                /\ db' = [db EXCEPT !.projects[projectId] = Null]
    /\ UNCHANGED <<tz, appointments>>

\* PUT /modifications/:projectId/status of the admin, with a status and no
\* approvedCost; the other columns it writes are read by no handler here
UpdateModificationStatus(projectId, status) ==
    /\ req' = [status |-> status, op |-> "updateModificationStatus",
               projectId |-> projectId]
    /\ locals' = NoLocals
    /\ IF projectId \notin DOMAIN db.projects \/ db.projects[projectId] = Null
       THEN resp' = ModificationNotFound /\ db' = db
       ELSE LET project == db.projects[projectId]
                updatedProject ==
                    Project(project.customerId, status, project.title, project.estimatedCost)
            IN  /\ resp' = ProjectUpdated(updatedProject)
                /\ db' = [db EXCEPT !.projects[projectId] = updatedProject]
    /\ UNCHANGED <<tz, appointments>>

NextProjects ==
    \/ \E userId \in ProjectUsers, projectId \in ProjectIds \cup {NoProject},
          title \in Titles, estimatedCost \in Costs :
           UpdateProject(userId, projectId, title, estimatedCost)
    \/ \E userId \in ProjectUsers, projectId \in ProjectIds \cup {NoProject} :
           DeleteProject(userId, projectId)
    \/ \E projectId \in ProjectIds \cup {NoProject}, status \in ProjectStatus :
           UpdateModificationStatus(projectId, status)

SpecProjects == InitProjects /\ [][NextProjects]_vars

(* C23: A customer's updateProject or deleteProject changes or removes a   *)
(* project only while the project belongs to that customer and its status  *)
(* is 'pending'.  For a project of the customer whose status is approved,  *)
(* in_progress, completed or cancelled, and for a project of another       *)
(* customer, both requests are answered 404 and the table stays as it was. *)
ByCustomer == req'.op \in {"updateProject", "deleteProject"}

OwnAndPending(projects, userId, projectId) ==
    /\ projectId \in DOMAIN projects
    /\ projects[projectId] # Null
    /\ CustomerOf(userId) # Null
    /\ projects[projectId].customerId = CustomerOf(userId).id
    /\ projects[projectId].status = "pending"

C23_OnlyOwnPendingProjects ==
    [][ByCustomer =>
          /\ db' # db => OwnAndPending(db.projects, req'.userId, req'.projectId)
          /\ db' # db => \A p \in ProjectIds \ {req'.projectId} :
                             db'.projects[p] = db.projects[p]
          /\ ~OwnAndPending(db.projects, req'.userId, req'.projectId) =>
                 resp'.status = 404 /\ db' = db]_vars

\* the customer's own project is no longer pending, the request for it has
\* been answered 404 and the row is still there
C23_Witness ==
    /\ req.op \in {"updateProject", "deleteProject"}
    /\ req.projectId \in ProjectIds
    /\ db.projects[req.projectId] # Null
    /\ CustomerOf(req.userId) # Null
    /\ db.projects[req.projectId].customerId = CustomerOf(req.userId).id
    /\ db.projects[req.projectId].status \in ProjectStatus \ {"pending"}
    /\ resp.status = 404

\* the customer's pending project has been changed by updateProject
C23_WitnessUpdated ==
    /\ req.op = "updateProject"
    /\ resp.status = 200
    /\ resp.data.title = "Lift kit"
    /\ db.projects[req.projectId] = resp.data

----------------------------------------------------------------------------
(* C24: No double booking: at any time at most one appointment that is     *)
(* scheduled, confirmed or in_progress exists for a date and hour.         *)
C24_NoDoubleBooking ==
    \A i, j \in DOMAIN appointments :
        (/\ Occupies(appointments[i].status)
         /\ Occupies(appointments[j].status)
         /\ ClockDay(appointments[i].scheduledDate) = ClockDay(appointments[j].scheduledDate)
         /\ ClockHour(appointments[i].scheduledDate) = ClockHour(appointments[j].scheduledDate))
        => i = j

(* C25: Availability follows the booking lifecycle.  A query for date D    *)
(* omits an hour h of D's business hours for as long as an appointment     *)
(* created for D at h is scheduled, confirmed or in_progress, and lists h  *)
(* again once no appointment of D at h occupies it, as after its           *)
(* cancellation.                                                           *)
ListedFor(h) ==
    /\ resp.status = 200
    /\ "availableSlots" \in DOMAIN resp.data
    /\ h \in SlotHours(resp.data.availableSlots)

CancelledAt(day, h) ==
    {i \in BookingsOn(day) : /\ appointments[i].status = "cancelled"
                             /\ ClockHour(appointments[i].scheduledDate) = h}

C25_AvailabilityFollowsLifecycle ==
    HttpAsked =>
        \A h \in PolicyHours(req.date.day) :
            /\ OccupyingAt(req.date.day, h) # {} => ~ListedFor(h)
            /\ (CancelledAt(req.date.day, h) # {} /\ OccupyingAt(req.date.day, h) = {})
                   => ListedFor(h)

----------------------------------------------------------------------------
(* Service logs of employees: logTime, updateServiceStatus, getTimeLogs.   *)
(* A text is the sequence of its pieces; the pieces that the handlers look *)
(* for ("Logged ", " hrs: ", the line break) are pieces of their own.      *)

ServiceStatus == {"not_started", "in_progress", "completed", "on_hold"}

\* SQL NULL in a numeric column; the handlers store no negative number
NullNumber == 0 - 1

\* new Date(): the time of the call, never null
NewDate == [kind |-> "date"]

\* the id of the one row of service_logs, and a :serviceId of no row
TheLog == 1
NoLog == 2

\* users 1 and 2 are employees (employees.id 21 and 22), user 3 is none
EmployeeUsers == {1, 2, 3}
EmployeeOf(userId) ==
    IF userId = 1 THEN [id |-> 21] ELSE IF userId = 2 THEN [id |-> 22] ELSE Null

\* a row of service_logs; notes <<>> is the null (or empty) text, both falsy
ServiceLog(appointmentId, employeeId, status, progress, hoursWorked, notes, endTime) ==
    [status |-> status, appointmentId |-> appointmentId, employeeId |-> employeeId,
     hoursWorked |-> hoursWorked, notes |-> notes, endTime |-> endTime,
     progressPercentage |-> progress, startTime |-> NewDate]

\* the row assignServiceToEmployee creates
CreatedLog(appointmentId, employeeId) ==
    ServiceLog(appointmentId, employeeId, "not_started", 0, NullNumber, <<>>, Null)

\* the log of appointment 1, assigned to employee 21
AssignedLog == CreatedLog(1, 21)

\* `${a}\n${b}`
LineBreak == "\n"
JoinLines(a, b) == a \o <<LineBreak>> \o b

\* new Date().toLocaleString()
Timestamp == "11/5/2026, 10:00:00 AM"

\* `[${timestamp}] Logged ${hours} hrs: ${description}`
LoggedNote(hours, description) ==
    <<"[", Timestamp, "] ", "Logged ", ToString(hours), " hrs: ">> \o description

\* `[${timestamp}] Status updated to ${status}: ${notes}`
StatusNote(status, notes) ==
    <<"[", Timestamp, "] ", "Status updated to ", status, ": ">> \o notes

\* the number of lines of a text
LineCount(text) ==
    IF text = <<>> THEN 0
    ELSE 1 + Cardinality({i \in DOMAIN text : text[i] = LineBreak})

ServiceIdAndHoursRequired ==
    [status |-> 400, success |-> FALSE, error |-> "Service ID and hours are required"]
StatusRequired == [status |-> 400, success |-> FALSE, error |-> "Status is required"]
EmployeeProfileNotFound ==
    [status |-> 404, success |-> FALSE, error |-> "Employee profile not found"]
ServiceNotAssigned ==
    [status |-> 404, success |-> FALSE, error |-> "Service not found or not assigned to you"]
FailedToUpdateStatus ==
    [status |-> 500, success |-> FALSE, error |-> "Failed to update service status"]

\* prisma.serviceLog.findFirst({where: {id, employeeId}})
FindAssigned(serviceLogs, serviceId, employeeId) ==
    IF serviceId \in DOMAIN serviceLogs /\ serviceLogs[serviceId].employeeId = employeeId
    THEN serviceLogs[serviceId]
    ELSE Null

\* updateData of logTime for the row read, and the row with it applied
LoggedHours(serviceLog, hours) ==
    (IF serviceLog.hoursWorked # NullNumber /\ serviceLog.hoursWorked # 0
     THEN serviceLog.hoursWorked ELSE 0) + hours

LoggedNotes(serviceLog, hours, description) ==
    IF description # <<>>
    THEN IF serviceLog.notes # <<>>
         THEN JoinLines(serviceLog.notes, LoggedNote(hours, description))
         ELSE LoggedNote(hours, description)
    ELSE serviceLog.notes

TimeLogged(serviceId, hours, description, newTotalHours) ==
    [status |-> 201, success |-> TRUE,
     data |-> [description |-> description, serviceId |-> serviceId,
               hoursAdded |-> hours, totalHours |-> newTotalHours],
     message |-> "Time logged successfully"]

\* the rows of service_logs after prisma.serviceLog.update of logTime: the
\* columns of updateData are written, the others keep their current value
WriteLoggedTime(serviceLogs, serviceId, serviceLog, hours, description) ==
    [serviceLogs EXCEPT
        ![serviceId].hoursWorked = LoggedHours(serviceLog, hours),
        ![serviceId].notes =
            IF description # <<>> THEN LoggedNotes(serviceLog, hours, description) ELSE @,
        ![serviceId].endTime = IF serviceLog.endTime = Null THEN NewDate ELSE @]

\* the lines of notes and the hours a log may hold before further requests
\* that add to them are left out
MaxLines == 2
MaxHours == 3

\* the logTime calls answered 201 so far, in order: what was sent
NoCalls == [calls |-> <<>>]
Called(calls, hours, description) ==
    [calls |-> Append(calls, [hours |-> hours, description |-> description])]

\* POST /employees/time-logs {serviceId, hours, description}; hours 0 stands
\* for the falsy values (absent, 0, ''), description <<>> for absent or ''
LogTime(userId, serviceId, hours, description) ==
    /\ LineCount(db.serviceLogs[TheLog].notes) < MaxLines
    /\ db.serviceLogs[TheLog].hoursWorked < MaxHours
    /\ req' = [op |-> "logTime", hours |-> hours, userId |-> userId,
               description |-> description, serviceId |-> serviceId]
    /\ LET employee == EmployeeOf(userId)
           serviceLog == FindAssigned(db.serviceLogs, serviceId, employee.id)
       IN  IF hours = 0
           THEN resp' = ServiceIdAndHoursRequired /\ UNCHANGED <<db, locals>>
           ELSE IF employee = Null
           THEN resp' = EmployeeProfileNotFound /\ UNCHANGED <<db, locals>>
           ELSE IF serviceLog = Null
           THEN resp' = ServiceNotAssigned /\ UNCHANGED <<db, locals>>
           ELSE /\ resp' = TimeLogged(serviceId, hours, description,
                                      LoggedHours(serviceLog, hours))
                /\ db' = [db EXCEPT !.serviceLogs =
                             WriteLoggedTime(@, serviceId, serviceLog, hours, description)]
                /\ locals' = Called(locals.calls, hours, description)
    /\ UNCHANGED <<tz, appointments>>

\* a body field that may be absent: undefined, or the text sent
Text(pieces) == [pieces |-> pieces]

\* parseInt on the progress sent
parseInt(text) == IF text = "50" THEN 50 ELSE NaN

StatusUpdated(serviceId, updatedServiceLog) ==
    [status |-> 200, success |-> TRUE,
     data |-> [status |-> updatedServiceLog.status, id |-> serviceId,
               progress |-> updatedServiceLog.progressPercentage,
               notes |-> updatedServiceLog.notes],
     message |-> "Service status updated successfully"]

\* updateData of updateServiceStatus applied to the current row
UpdatedStatus(current, serviceLog, status, progress, notes) ==
    [current EXCEPT
        !.status = status,
        !.progressPercentage =
            IF status = "completed" /\ serviceLog.endTime = Null THEN 100
            ELSE IF progress # Undefined THEN parseInt(progress) ELSE @,
        !.notes =
            IF notes # Null
            THEN IF serviceLog.notes # <<>>
                 THEN JoinLines(serviceLog.notes, StatusNote(status, notes.pieces))
                 ELSE StatusNote(status, notes.pieces)
            ELSE @,
        !.endTime = IF status = "completed" /\ serviceLog.endTime = Null THEN NewDate ELSE @]

\* PUT /employees/services/:serviceId/status {status, progress, notes}
UpdateServiceStatus(userId, serviceId, status, progress, notes) ==
    /\ notes # Null => LineCount(db.serviceLogs[TheLog].notes) < MaxLines
    /\ req' = [status |-> status, op |-> "updateServiceStatus", userId |-> userId,
               progress |-> progress, notes |-> notes, serviceId |-> serviceId]
    /\ LET employee == EmployeeOf(userId)
           serviceLog == FindAssigned(db.serviceLogs, serviceId, employee.id)
           updatedServiceLog ==
               UpdatedStatus(db.serviceLogs[serviceId], serviceLog, status, progress, notes)
       IN  IF status = Undefined
           THEN resp' = StatusRequired /\ db' = db
           ELSE IF employee = Null
           THEN resp' = EmployeeProfileNotFound /\ db' = db
           ELSE IF serviceLog = Null
           THEN resp' = ServiceNotAssigned /\ db' = db
           ELSE IF status \notin ServiceStatus
           THEN resp' = FailedToUpdateStatus /\ db' = db
           ELSE /\ resp' = StatusUpdated(serviceId, updatedServiceLog)
                /\ db' = [db EXCEPT !.serviceLogs[serviceId] = updatedServiceLog]
    /\ UNCHANGED <<tz, appointments, locals>>

\* what is sent in the runs about the status
StatusesSent == {Undefined, "in_progress", "completed", "finished"}
ProgressSent == {Undefined, "50"}
StatusNotesSent == {Null, Text(<<"waiting for parts">>)}
StatusHoursSent == {0, 1}
StatusDescriptionsSent == {<<>>, <<"brakes">>}

InitService ==
    /\ tz = 0
    /\ appointments = <<>>
    /\ req = NoRequest
    /\ resp = NoResponse
    /\ locals = NoCalls
    /\ db = [serviceLogs |-> <<AssignedLog>>]

NextStatus ==
    \/ \E userId \in EmployeeUsers, hours \in StatusHoursSent,
          description \in StatusDescriptionsSent :
           LogTime(userId, TheLog, hours, description)
    \/ \E userId \in EmployeeUsers, status \in StatusesSent, progress \in ProgressSent,
          notes \in StatusNotesSent :
           UpdateServiceStatus(userId, TheLog, status, progress, notes)

SpecStatus == InitService /\ [][NextStatus]_vars

(* C26: After updateServiceStatus with status 'completed' has succeeded on *)
(* a service log of the calling employee, that log has status completed,   *)
(* progressPercentage 100 and an endTime that is not null, whatever status *)
(* updates and logged time came before.                                    *)
CompletedNow ==
    /\ req'.op = "updateServiceStatus"
    /\ req'.status = "completed"
    /\ resp'.status = 200

C26_CompletedIsFull ==
    [][CompletedNow =>
          /\ db'.serviceLogs[req'.serviceId].status = "completed"
          /\ db'.serviceLogs[req'.serviceId].progressPercentage = 100
          /\ db'.serviceLogs[req'.serviceId].endTime # Null]_vars

----------------------------------------------------------------------------
(* logTime requests running concurrently.  logTime awaits three times:     *)
(* employee.findUnique, serviceLog.findFirst and serviceLog.update; the    *)
(* new total is computed from the row findFirst gave.                      *)

\* the requests in flight at one time
Loggers == {1, 2}

\* the logTime requests begun before further ones are left out
MaxCalls == 3

\* a logTime request: the response once sent, its position, the body and
\* the user, and the row findFirst gave it
Logging(response, pc, userId, hours, description, serviceLog) ==
    [resp |-> response, hours |-> hours, pc |-> pc, userId |-> userId,
     description |-> description, serviceLog |-> serviceLog]

NoLogging == Logging(NoResponse, "idle", 0, 0, <<>>, Null)

InitLogging ==
    /\ tz = 0
    /\ appointments = <<>>
    /\ req = [calls |-> <<>>, begun |-> 0]
    /\ resp = NoResponse
    /\ locals = [r \in Loggers |-> NoLogging]
    /\ db = [serviceLogs |-> <<AssignedLog>>]

\* POST /employees/time-logs arrives: the validation, then findUnique is called
BeginLogTime(r, userId, hours, description) ==
    /\ locals[r].pc \in {"idle", "done"}
    /\ req.begun < MaxCalls
    /\ req' = [req EXCEPT !.begun = @ + 1]
    /\ locals' = [locals EXCEPT ![r] =
           IF hours = 0
           THEN Logging(ServiceIdAndHoursRequired, "done", userId, hours, description, Null)
           ELSE Logging(NoResponse, "findUnique", userId, hours, description, Null)]
    /\ UNCHANGED <<tz, appointments, resp, db>>

\* the store answers employee.findUnique; 404 for no profile
FoundEmployee(r) ==
    /\ locals[r].pc = "findUnique"
    /\ locals' = [locals EXCEPT ![r] =
           IF EmployeeOf(locals[r].userId) = Null
           THEN [@ EXCEPT !.resp = EmployeeProfileNotFound, !.pc = "done"]
           ELSE [@ EXCEPT !.pc = "findFirst"]]
    /\ UNCHANGED <<tz, appointments, req, resp, db>>

\* the store answers serviceLog.findFirst with the row as it is now
ReadServiceLog(r) ==
    /\ locals[r].pc = "findFirst"
    /\ LET serviceLog ==
               FindAssigned(db.serviceLogs, TheLog, EmployeeOf(locals[r].userId).id)
       IN  locals' = [locals EXCEPT ![r] =
               IF serviceLog = Null
               THEN [@ EXCEPT !.resp = ServiceNotAssigned, !.pc = "done"]
               ELSE [@ EXCEPT !.pc = "update", !.serviceLog = serviceLog]]
    /\ UNCHANGED <<tz, appointments, req, resp, db>>

\* serviceLog.update with the updateData computed from the row read, and 201
WriteTime(r) ==
    /\ locals[r].pc = "update"
    /\ LET hours == locals[r].hours
           description == locals[r].description
           serviceLog == locals[r].serviceLog
       IN  /\ db' = [db EXCEPT !.serviceLogs =
                        WriteLoggedTime(@, TheLog, serviceLog, hours, description)]
           /\ locals' = [locals EXCEPT ![r] =
                  [@ EXCEPT !.resp = TimeLogged(TheLog, hours, description,
                                                LoggedHours(serviceLog, hours)),
                            !.pc = "done"]]
           /\ req' = [req EXCEPT !.calls = Called(@, hours, description).calls]
    /\ UNCHANGED <<tz, appointments, resp>>

\* what is sent in the concurrent runs
LoggingUsers == {1, 3}
LoggingHours == {0, 1, 2}
LoggingDescriptions == {<<>>, <<"brakes">>}

NextLogging ==
    \/ \E r \in Loggers, userId \in LoggingUsers, hours \in LoggingHours,
          description \in LoggingDescriptions :
           BeginLogTime(r, userId, hours, description)
    \/ \E r \in Loggers : FoundEmployee(r)
    \/ \E r \in Loggers : ReadServiceLog(r)
    \/ \E r \in Loggers : WriteTime(r)

SpecLogging == InitLogging /\ [][NextLogging]_vars

RECURSIVE SumOfHours(_)
SumOfHours(calls) ==
    IF calls = <<>> THEN 0 ELSE calls[1].hours + SumOfHours(Tail(calls))

\* Number(hoursWorked), with null as no hours
HoursOf(serviceLog) == IF serviceLog.hoursWorked = NullNumber THEN 0 ELSE serviceLog.hoursWorked

(* C27: Logged hours accumulate without loss: after every sequence or      *)
(* interleaving of logTime requests answered 201 on a service log, its     *)
(* hoursWorked is the value before them plus the sum of their hours.       *)
C27_HoursAccumulate ==
    (\A r \in Loggers : locals[r].pc \in {"idle", "done"})
        => HoursOf(db.serviceLogs[TheLog]) = HoursOf(AssignedLog) + SumOfHours(req.calls)

----------------------------------------------------------------------------
(* Assigning appointments to employees: assignServiceToEmployee of the     *)
(* admin.  The rows of appointments keep their place here: the :serviceId  *)
(* of the route is the id of an appointment.                               *)

\* the ids of the appointments, and a :serviceId of no row
AssignableIds == {1, 2}
NoAppointment == 3

\* the ids of the employees, an id of no employee, and the falsy employeeId
EmployeeIds == {21, 22}
NoEmployee == 23
MissingEmployeeId == 0

\* the service logs in the table before further creations are left out
MaxLogs == 3

EmployeeIdRequired == [status |-> 400, success |-> FALSE, error |-> "Employee ID is required"]
EmployeeNotFound == [status |-> 404, success |-> FALSE, error |-> "Employee not found"]
Reassigned(updatedLog) ==
    [status |-> 200, success |-> TRUE, data |-> updatedLog,
     message |-> "Employee reassigned successfully"]
Assigned(serviceLog) ==
    [status |-> 200, success |-> TRUE, data |-> serviceLog,
     message |-> "Employee assigned successfully"]

\* a lookup that finds no log
NoExistingLog(serviceLogs, appointmentId) == NoRow

\* prisma.serviceLog.findFirst({where: {appointmentId}, orderBy: {createdAt:
\* 'desc'}}): the id of the newest log of the appointment, or none
ExistingLog(serviceLogs, appointmentId) ==
    LET logs == {i \in DOMAIN serviceLogs : serviceLogs[i].appointmentId = appointmentId}
    IN  IF logs = {} THEN NoRow ELSE CHOOSE i \in logs : \A j \in logs : j <= i

InitAssign ==
    /\ tz = 0
    /\ req = NoRequest
    /\ resp = NoResponse
    /\ locals = NoLocals
    /\ db = [serviceLogs |-> <<>>]
    /\ \E statuses \in [AssignableIds -> AppointmentStatus] :
           appointments = [id \in AssignableIds |-> Appointment(0, statuses[id])]

\* PUT /admin/services/:serviceId/assign {employeeId}
AssignServiceToEmployee(serviceId, employeeId) ==
    /\ Len(db.serviceLogs) < MaxLogs
    /\ req' = [op |-> "assignServiceToEmployee", employeeId |-> employeeId,
               serviceId |-> serviceId]
    /\ LET existingLog == ExistingLog(db.serviceLogs, serviceId)
           updatedLog == [db.serviceLogs[existingLog] EXCEPT !.employeeId = employeeId]
           serviceLog == CreatedLog(serviceId, employeeId)
       IN  IF employeeId = MissingEmployeeId
           THEN resp' = EmployeeIdRequired /\ UNCHANGED <<db, appointments>>
           ELSE IF serviceId \notin DOMAIN appointments
           THEN resp' = AppointmentNotFound /\ UNCHANGED <<db, appointments>>
           ELSE IF employeeId \notin EmployeeIds
           THEN resp' = EmployeeNotFound /\ UNCHANGED <<db, appointments>>
           ELSE IF existingLog # NoRow
           THEN /\ db' = [db EXCEPT !.serviceLogs[existingLog] = updatedLog]
                /\ resp' = Reassigned(updatedLog)
                /\ UNCHANGED appointments
           ELSE /\ db' = [db EXCEPT !.serviceLogs = Append(@, serviceLog)]
                /\ appointments' =
                       IF appointments[serviceId].status = "scheduled"
                       THEN [appointments EXCEPT ![serviceId].status = "confirmed"]
                       ELSE appointments
                /\ resp' = Assigned(serviceLog)
    /\ UNCHANGED <<tz, locals>>

NextAssign ==
    \E serviceId \in AssignableIds \cup {NoAppointment},
       employeeId \in EmployeeIds \cup {NoEmployee, MissingEmployeeId} :
        AssignServiceToEmployee(serviceId, employeeId)

SpecAssign == InitAssign /\ [][NextAssign]_vars

(* C28: An appointment never gets more than one service log through        *)
(* assignment.  An assignment answered 200 for an appointment without a    *)
(* log creates one log (not_started, progress 0, the employee sent) and    *)
(* moves the appointment from scheduled to confirmed, leaving any other    *)
(* status; for an appointment with a log it changes that log's employee    *)
(* only: no log is created and no appointment changes.                     *)
LogsOf(serviceLogs, appointmentId) ==
    {i \in DOMAIN serviceLogs : serviceLogs[i].appointmentId = appointmentId}

AssignedNow == req'.op = "assignServiceToEmployee" /\ resp'.status = 200

FirstAssignment ==
    /\ Len(db'.serviceLogs) = Len(db.serviceLogs) + 1
    /\ SubSeq(db'.serviceLogs, 1, Len(db.serviceLogs)) = db.serviceLogs
    /\ db'.serviceLogs[Len(db'.serviceLogs)] = CreatedLog(req'.serviceId, req'.employeeId)
    /\ appointments' =
           [appointments EXCEPT ![req'.serviceId].status =
               IF @ = "scheduled" THEN "confirmed" ELSE @]

Reassignment ==
    /\ appointments' = appointments
    /\ Len(db'.serviceLogs) = Len(db.serviceLogs)
    /\ \A i \in DOMAIN db.serviceLogs :
           db'.serviceLogs[i] =
               IF i \in LogsOf(db.serviceLogs, req'.serviceId)
               THEN [db.serviceLogs[i] EXCEPT !.employeeId = req'.employeeId]
               ELSE db.serviceLogs[i]

----------------------------------------------------------------------------
(* Changing roles: updateUserRole of the admin.  A user registers with the *)
(* profile of the role (the customers row or the employees row, none for   *)
(* an admin); customers.user_id and employees.user_id are unique.          *)

Role == {"customer", "employee", "admin"}

\* the ids of the rows of the users table in the runs about roles, and a
\* :userId of no row
RoleUserIds == {1, 2}
NoRoleUser == 3

\* a role that is none
InvalidRole == "manager"

\* a customers or employees row of a user: the columns that are copied
Profile(firstName, lastName) == [firstName |-> firstName, lastName |-> lastName]

\* the profile the user registered with
RegisteredProfile(userId) ==
    IF userId = 1 THEN Profile("John", "Doe") ELSE Profile("Jane", "Smith")

InvalidRoleSent ==
    [status |-> 400, success |-> FALSE,
     error |-> "Invalid role. Must be customer, employee, or admin"]
FailedToUpdateRole ==
    [status |-> 500, success |-> FALSE, error |-> "Failed to update user role"]
RoleUpdated(updatedUser) ==
    [status |-> 200, success |-> TRUE, data |-> updatedUser,
     message |-> "User role updated successfully"]

\* the tables after register({role}) of each user
Registered(roles) ==
    [users |-> [u \in RoleUserIds |-> User(roles[u])],
     customers |-> [u \in RoleUserIds |->
                       IF roles[u] = "customer" THEN RegisteredProfile(u) ELSE Null],
     employees |-> [u \in RoleUserIds |->
                       IF roles[u] = "employee" THEN RegisteredProfile(u) ELSE Null]]

InitRoles ==
    /\ tz = 0
    /\ appointments = <<>>
    /\ req = NoRequest
    /\ resp = NoResponse
    /\ locals = NoLocals
    /\ \E roles \in [RoleUserIds -> Role] : db = Registered(roles)

\* PUT /admin/users/:userId/role {role}; a create for a user_id that has a
\* row already violates the unique key and throws
UpdateUserRole(userId, role) ==
    /\ req' = [op |-> "updateUserRole", role |-> role, userId |-> userId]
    /\ LET user == FindUser(db.users, userId)
           customer == db.customers[userId]
           employee == db.employees[userId]
           updatedUser == User(role)
       IN  IF role \notin Role
           THEN resp' = InvalidRoleSent /\ db' = db
           ELSE IF user = Null
           THEN resp' = UserNotFound /\ db' = db
           ELSE IF user.role = "customer" /\ role = "employee" /\ customer # Null
           THEN IF employee # Null
                THEN resp' = FailedToUpdateRole /\ db' = db
                ELSE /\ db' = [db EXCEPT !.employees[userId] =
                                              Profile(customer.firstName, customer.lastName),
                                         !.users[userId] = updatedUser]
                     /\ resp' = RoleUpdated(updatedUser)
           ELSE IF user.role = "employee" /\ role = "customer" /\ employee # Null
           THEN IF customer # Null
                THEN resp' = FailedToUpdateRole /\ db' = db
                ELSE /\ db' = [db EXCEPT !.customers[userId] =
                                              Profile(employee.firstName, employee.lastName),
                                         !.users[userId] = updatedUser]
                     /\ resp' = RoleUpdated(updatedUser)
           ELSE /\ db' = [db EXCEPT !.users[userId] = updatedUser]
                /\ resp' = RoleUpdated(updatedUser)
    /\ UNCHANGED <<tz, appointments, locals>>

NextRoles ==
    \E userId \in RoleUserIds \cup {NoRoleUser}, role \in Role \cup {InvalidRole} :
        UpdateUserRole(userId, role)

SpecRoles == InitRoles /\ [][NextRoles]_vars

(* C29: Every sequence of valid role changes on an existing user succeeds: *)
(* each updateUserRole with a role among customer, employee and admin is   *)
(* answered 200 and leaves the user with that role, and after a switch     *)
(* between customer and employee the profile of the new role exists, also  *)
(* from customer to employee and back to customer.                         *)
ValidRoleChange ==
    /\ req'.op = "updateUserRole"
    /\ req'.role \in Role
    /\ req'.userId \in RoleUserIds

ProfileOf(tables, userId, role) ==
    IF role = "customer" THEN tables.customers[userId] ELSE tables.employees[userId]

C29_RoleChangesSucceed ==
    [][ValidRoleChange =>
          /\ resp'.status = 200
          /\ db'.users[req'.userId].role = req'.role
          /\ ({db.users[req'.userId].role, req'.role} = {"customer", "employee"}
                 => ProfileOf(db', req'.userId, req'.role) # Null)]_vars

----------------------------------------------------------------------------
(* Reading time logs back: getTimeLogs parses the notes of the service     *)
(* logs of the employee.                                                   *)

\* line.includes('Logged'), line.includes('hrs:'): the pieces holding them
HasLogged(text) == \E i \in DOMAIN text : text[i] = "Logged "
HasHrs(text) == \E i \in DOMAIN text : text[i] = " hrs: "

\* notes.split('\n'): the lines of a text that is not empty
RECURSIVE SplitLines(_)
SplitLines(text) ==
    IF \A i \in DOMAIN text : text[i] # LineBreak THEN <<text>>
    ELSE LET at == CHOOSE i \in DOMAIN text :
                       text[i] = LineBreak /\ \A j \in 1 .. (i - 1) : text[j] # LineBreak
         IN  <<SubSeq(text, 1, at - 1)>> \o SplitLines(SubSeq(text, at + 1, Len(text)))

\* the numbers ToString writes, read back by parseFloat
Digits == 0 .. 9
IsNumber(piece) == \E n \in Digits : ToString(n) = piece
ParseNumber(piece) == CHOOSE n \in Digits : ToString(n) = piece

\* line.match(/Logged ([\d.]+) hrs:/): parseFloat of the first match, or 0
MatchedHours(line) ==
    LET matches == {i \in 1 .. (Len(line) - 2) :
                       /\ line[i] = "Logged "
                       /\ IsNumber(line[i + 1])
                       /\ line[i + 2] = " hrs: "}
    IN  IF matches = {} THEN 0
        ELSE ParseNumber(line[(CHOOSE i \in matches : \A j \in matches : i <= j) + 1])

\* line.split('hrs: ')[1] || 'Time logged': what stands between the first
\* 'hrs: ' and the next one (or the end of the line)
MatchedDescription(line) ==
    LET marks == {i \in DOMAIN line : line[i] = " hrs: "}
        first == CHOOSE i \in marks : \A j \in marks : i <= j
        later == {i \in marks : i > first}
        last == IF later = {} THEN Len(line)
                ELSE (CHOOSE i \in later : \A j \in later : i <= j) - 1
        descMatch == SubSeq(line, first + 1, last)
    IN  IF descMatch = <<>> THEN <<"Time logged">> ELSE descMatch

\* noteLines.filter(...), keeping the order
RECURSIVE FilterLogged(_)
FilterLogged(lines) ==
    IF lines = <<>> THEN <<>>
    ELSE (IF HasLogged(lines[1]) /\ HasHrs(lines[1]) THEN <<lines[1]>> ELSE <<>>)
             \o FilterLogged(Tail(lines))

\* an entry of the answer; serviceName and date are left out
TimeLogEntry(id, index, hours, description) ==
    [id |-> id, hours |-> hours, description |-> description, index |-> index]

\* no index: the entry of a log without parsed lines
NoIndex == 0 - 1

\* an answer that gives the total of a log only
TotalsOf(log, id) ==
    <<TimeLogEntry(id, NoIndex, log.hoursWorked, <<"Total hours worked">>)>>

\* the flatMap callback: the entries of one service log
EntriesOf(log, id) ==
    IF log.notes # <<>> /\ HasLogged(log.notes)
    THEN LET lines == FilterLogged(SplitLines(log.notes))
         IN  [index \in DOMAIN lines |->
                 TimeLogEntry(id, index - 1, MatchedHours(lines[index]),
                              MatchedDescription(lines[index]))]
    ELSE TotalsOf(log, id)

TimeLogs(formattedLogs) == [status |-> 200, success |-> TRUE, data |-> formattedLogs]

\* GET /employees/time-logs?serviceId=; the serviceId 0 stands for none.
\* findMany gives the log when it is the employee's, has hours, and is the
\* one asked for
GetTimeLogs(userId, serviceId) ==
    /\ req' = [op |-> "getTimeLogs", userId |-> userId, serviceId |-> serviceId]
    /\ LET employee == EmployeeOf(userId)
           log == db.serviceLogs[TheLog]
           found == /\ log.employeeId = employee.id
                    /\ log.hoursWorked # NullNumber
                    /\ serviceId # 0 => serviceId = TheLog
       IN  resp' = IF employee = Null THEN EmployeeProfileNotFound
                   ELSE IF found THEN TimeLogs(EntriesOf(log, TheLog))
                   ELSE TimeLogs(<<>>)
    /\ UNCHANGED <<tz, appointments, locals, db>>

\* what is sent in the runs about time logs: one line, or two lines
HoursSent == {0, 1, 2}
DescriptionsSent == {<<>>, <<"brakes">>, <<"oil", LineBreak, "filter">>}

NextTimeLogs ==
    \/ \E userId \in EmployeeUsers, serviceId \in {TheLog, NoLog}, hours \in HoursSent,
          description \in DescriptionsSent :
           LogTime(userId, serviceId, hours, description)
    \/ \E userId \in EmployeeUsers, serviceId \in {0, TheLog, NoLog} :
           GetTimeLogs(userId, serviceId)

SpecTimeLogs == InitService /\ [][NextTimeLogs]_vars

(* C30: Time-log round trip: getTimeLogs of the employee returns, for the  *)
(* logTime calls with hours h and description d answered 201 on a service  *)
(* log, exactly one entry each, with hours h and description d, in a       *)
(* one-to-one correspondence with the calls.                               *)
SentBack(entries) ==
    [i \in DOMAIN entries |->
        [hours |-> entries[i].hours, description |-> entries[i].description]]

AllDescribed == \A i \in DOMAIN locals.calls : locals.calls[i].description # <<>>

C30_TimeLogRoundTrip ==
    (/\ req.op = "getTimeLogs"
     /\ req.userId = 1
     /\ req.serviceId \in {0, TheLog}
     /\ AllDescribed)
    => resp.status = 200 /\ SentBack(resp.data) = locals.calls

====
